---- MODULE Spec2Model ----
(***************************************************************************)
(* Model of the manga catalogue lookup tool (src/manga_lookup.py): the     *)
(* ProjectState response cache and its state file, DeepSeekAPI             *)
(* (get_book_info, _rate_limit), the record normaliser process_book_data,  *)
(* parse_volume_range, generate_sequential_barcodes and the command-line   *)
(* main; the retrying lookup of src/add_missing_volumes_incremental.py;    *)
(* and the worker pool of src/streamlit_app.py calling them from several   *)
(* threads.  Each part has its own specification over the same variables;  *)
(* a specification leaves the variables of the other parts at their idle   *)
(* values or documents the use it makes of them.                           *)
(*                                                                         *)
(* Python strings that the code slices, splits or searches are sequences   *)
(* of one-character strings; texts the code only stores and compares       *)
(* (API responses, error texts) are TLA+ strings.  None is the string      *)
(* "None" wherever a Python value may be None.  Timestamps                 *)
(* (datetime.now()) are not part of the model.                             *)
(***************************************************************************)
EXTENDS Integers, Sequences, FiniteSets, TLC

VARIABLES
    state,          \* ProjectState.state (api_calls, cached_responses)
    file,           \* the state file: whether it exists, and the JSON document in it
    reqCount,       \* history: external requests issued in this process run, per (series, volume)
    okSeen,         \* history: payload of the first successful request on this ProjectState, per pair
    lateReq,        \* history: a request was issued for a pair that had already succeeded
    last,           \* history: the last cache / lookup operation and what it returned
    newest,         \* history: per cache key, the payload of the newest successful record_api_call
    raw_data,       \* process_book_data: the raw metadata object
    volume_number,  \* process_book_data: the volume number argument
    book,           \* process_book_data: the returned BookInfo, or the exception raised
    volume_input,   \* parse_volume_range: the input string
    volumes,        \* parse_volume_range: the returned list, or the exception raised
    start_barcode,  \* generate_sequential_barcodes: the starting barcode
    count,          \* generate_sequential_barcodes: the count argument
    barcodes,       \* generate_sequential_barcodes: the returned list, or the exception raised
    pc,             \* main: where the CLI run is ("start", "loop", "after_loop", "exited")
    api_key,        \* the environment variable DEEPSEEK_API_KEY ("" when it is not set)
    remaining,      \* main: the volumes the batch loop has still to process
    looked,         \* history: the volumes get_book_info was called for, in order
    all_books,      \* main: the BookInfo records collected so far
    error,          \* main: the exception that reached main's handler, and where it was raised
    exit_status,    \* the exit status of the process, None while it runs
    now,            \* the clock (time.time()), in units of min_request_interval / GateScale
    gate,           \* worker pool: each task's DeepSeekAPI instance and position in get_book_info
    sent,           \* history: the clock readings at which requests.post was called
    writer,         \* worker pool: each task's position in record_api_call / save_state
    observed        \* history: what the readers of the state file have seen

cacheVars == <<state, file, reqCount, okSeen, lateReq, last, newest>>
normVars == <<raw_data, volume_number, book>>
rangeVars == <<volume_input, volumes>>
barcodeVars == <<start_barcode, count, barcodes>>
mainVars == <<pc, api_key, remaining, looked, all_books, error, exit_status>>
gateVars == <<now, gate, sent>>
writerVars == <<writer, observed>>
poolVars == <<gateVars, writerVars>>
vars == <<state, file, reqCount, okSeen, lateReq, last, newest, raw_data, volume_number, book,
          volume_input, volumes, start_barcode, count, barcodes,
          pc, api_key, remaining, looked, all_books, error, exit_status,
          now, gate, sent, writer, observed>>

----------------------------------------------------------------------------
(* Bounds *)

MaxVolume == 2      \* volumes looked up are 1..MaxVolume
MaxCalls == 2       \* api_calls entries recorded before the model stops adding more

----------------------------------------------------------------------------
(* Python string primitives on sequences of characters *)

None == "None"

Digits == <<"0", "1", "2", "3", "4", "5", "6", "7", "8", "9">>

IsDigit(c) == \E i \in 1..10 : Digits[i] = c

DigitVal(c) == (CHOOSE i \in 1..10 : Digits[i] = c) - 1

(* str.isspace for the characters of the model *)
IsSpace(c) == c \in {" ", "\n", "\t"}

Take(s, n) == SubSeq(s, 1, IF n < Len(s) THEN n ELSE Len(s))

Drop(s, n) == SubSeq(s, n + 1, Len(s))

Rep(c, n) == [i \in 1..n |-> c]

RECURSIVE IntToStr(_)
(* str(n) for n >= 0 *)
IntToStr(n) ==
    IF n < 10 THEN <<Digits[n + 1]>>
    ELSE IntToStr(n \div 10) \o <<Digits[(n % 10) + 1]>>

RECURSIVE LStrip(_)
LStrip(s) == IF s # <<>> /\ IsSpace(Head(s)) THEN LStrip(Tail(s)) ELSE s

RECURSIVE RStrip(_)
RStrip(s) ==
    IF s # <<>> /\ IsSpace(s[Len(s)]) THEN RStrip(SubSeq(s, 1, Len(s) - 1)) ELSE s

(* str.strip() *)
Strip(s) == RStrip(LStrip(s))

(* s.startswith(p) *)
StartsWith(s, p) == Len(p) <= Len(s) /\ SubSeq(s, 1, Len(p)) = p

(* p in s *)
Contains(s, p) == \E i \in 0..(Len(s) - Len(p)) : SubSeq(s, i + 1, i + Len(p)) = p

RECURSIVE SplitOn(_, _)
(* s.split(sep) for a non-empty separator: always at least one piece *)
SplitOn(s, sep) ==
    IF ~Contains(s, sep) THEN <<s>>
    ELSE LET i == CHOOSE k \in 0..(Len(s) - Len(sep)) :
                    /\ SubSeq(s, k + 1, k + Len(sep)) = sep
                    /\ \A j \in 0..(k - 1) : SubSeq(s, j + 1, j + Len(sep)) # sep
         IN <<SubSeq(s, 1, i)>> \o SplitOn(Drop(s, i + Len(sep)), sep)

RECURSIVE SplitWS(_)
(* s.split(): the whitespace-separated words, none of them empty *)
SplitWS(s) ==
    LET t == LStrip(s) IN
    IF t = <<>> THEN <<>>
    ELSE LET n == IF \E k \in 1..Len(t) : IsSpace(t[k])
                  THEN (CHOOSE k \in 1..Len(t) :
                            IsSpace(t[k]) /\ \A j \in 1..(k - 1) : ~IsSpace(t[j])) - 1
                  ELSE Len(t)
         IN <<Take(t, n)>> \o SplitWS(Drop(t, n))

RECURSIVE Join(_, _)
(* sep.join(parts) *)
Join(sep, parts) ==
    IF parts = <<>> THEN <<>>
    ELSE IF Len(parts) = 1 THEN parts[1]
    ELSE parts[1] \o sep \o Join(sep, Tail(parts))

(* s.count(c) for one character *)
CountChar(s, c) == Cardinality({i \in 1..Len(s) : s[i] = c})

UpperCase == <<"A","B","C","D","E","F","G","H","I","J","K","L","M",
               "N","O","P","Q","R","S","T","U","V","W","X","Y","Z">>

LowerCase == <<"a","b","c","d","e","f","g","h","i","j","k","l","m",
               "n","o","p","q","r","s","t","u","v","w","x","y","z">>

IsUpper(c) == \E i \in 1..26 : UpperCase[i] = c

IsLower(c) == \E i \in 1..26 : LowerCase[i] = c

IsLetter(c) == IsUpper(c) \/ IsLower(c)

LowerChar(c) == IF IsUpper(c) THEN LowerCase[CHOOSE i \in 1..26 : UpperCase[i] = c] ELSE c

UpperChar(c) == IF IsLower(c) THEN UpperCase[CHOOSE i \in 1..26 : LowerCase[i] = c] ELSE c

(* s.lower() *)
Lower(s) == [i \in 1..Len(s) |-> LowerChar(s[i])]

(* s.capitalize(): first character upper case, the rest lower case *)
Capitalize(s) == [i \in 1..Len(s) |-> IF i = 1 THEN UpperChar(s[i]) ELSE LowerChar(s[i])]

----------------------------------------------------------------------------
(* ProjectState: the response cache and its state file *)

RECURSIVE SetToSeq(_)
SetToSeq(S) ==
    IF S = {} THEN <<>>
    ELSE LET x == CHOOSE y \in S : TRUE IN <<x>> \o SetToSeq(S \ {x})

(* d[key] = value on a Python dict, modelled as a function *)
DictSet(d, key, value) ==
    [k \in (DOMAIN d) \cup {key} |-> IF k = key THEN value ELSE d[k]]

(* d.get(key) *)
DictGet(d, key) == IF key \in DOMAIN d THEN d[key] ELSE None

RECURSIVE DictFromItems(_)
DictFromItems(items) ==
    IF items = <<>> THEN <<>>
    ELSE DictSet(DictFromItems(SubSeq(items, 1, Len(items) - 1)),
                 items[Len(items)][1], items[Len(items)][2])

(* the default state of _load_state *)
default_state ==
    [interaction_count |-> 0,
     searches |-> <<>>,
     api_calls |-> <<>>,
     last_search |-> None,
     total_books_found |-> 0,
     cached_responses |-> <<>>]

(* json.dump(self.state, f): the document written to the state file; the
   cached_responses object becomes its list of "key": value members *)
json_dump(st) ==
    LET keys == SetToSeq(DOMAIN st.cached_responses) IN
    [interaction_count |-> st.interaction_count,
     searches |-> st.searches,
     api_calls |-> st.api_calls,
     last_search |-> st.last_search,
     total_books_found |-> st.total_books_found,
     cached_responses |-> [i \in 1..Len(keys) |-> <<keys[i], st.cached_responses[keys[i]]>>]]

json_load_dropcache(doc) ==
    [interaction_count |-> doc.interaction_count,
     searches |-> doc.searches,
     api_calls |-> doc.api_calls,
     last_search |-> doc.last_search,
     total_books_found |-> doc.total_books_found,
     cached_responses |-> <<>>]

(* json.load(f): the state decoded from a document *)
json_load(doc) ==
    [interaction_count |-> doc.interaction_count,
     searches |-> doc.searches,
     api_calls |-> doc.api_calls,
     last_search |-> doc.last_search,
     total_books_found |-> doc.total_books_found,
     cached_responses |-> DictFromItems(doc.cached_responses)]

(* the length of a document of the state file, counted in the entries it
   holds: every api_calls, searches and cached_responses entry adds text to
   the document, so a document that holds more entries is longer *)
DocSize(doc) == Len(doc.api_calls) + Len(doc.searches) + Len(doc.cached_responses)

(* a state file whose content is not a JSON document: an empty file (size 0,
   left by open(..., 'w') before anything is written), or a document
   followed by the rest of a longer one *)
Torn(size) == [torn |-> TRUE, size |-> size]

(* json.load raises JSONDecodeError on the content *)
Undecodable(content) == "torn" \in DOMAIN content

ContentSize(content) == IF Undecodable(content) THEN content.size ELSE DocSize(content)

(* ProjectState._load_state: the decoded file when it exists, can be read
   (ok) and holds a JSON document; the default state otherwise: IOError and
   JSONDecodeError are caught and reported *)
load_state(f, ok) ==
    IF f.exists /\ ok /\ ~Undecodable(f.doc) THEN json_load(f.doc) ELSE default_state

(* ProjectState.save_state: the new file contents; an IOError (~ok) is
   reported and leaves the file as it was *)
save_state(st, f, ok) == IF ok THEN [exists |-> TRUE, doc |-> json_dump(st)] ELSE f

KeyPrefixLen == 100

(* cache_key = f"{prompt[:100]}_{volume}" *)
cache_key(prompt, volume) == Take(prompt, KeyPrefixLen) \o <<"_">> \o IntToStr(volume)

record_api_call_nocache(st, prompt, response, volume, success) ==
    [st EXCEPT !.api_calls = Append(@, [prompt |-> prompt, response |-> response,
                                        volume |-> volume, success |-> success])]

(* ProjectState.record_api_call, up to its save_state: the new in-memory state *)
record_api_call(st, prompt, response, volume, success) ==
    LET logged == [st EXCEPT !.api_calls =
                       Append(@, [prompt |-> prompt, response |-> response,
                                  volume |-> volume, success |-> success])]
    IN IF success
       THEN [logged EXCEPT !.cached_responses =
                 DictSet(@, cache_key(prompt, volume), response)]
       ELSE logged

(* record_interaction counting the call but not the books *)
record_interaction_nototal(st, search_query, books_found) ==
    LET search_record == [query |-> search_query, books_found |-> books_found] IN
    [st EXCEPT !.interaction_count = @ + 1,
               !.searches = Append(@, search_record),
               !.last_search = search_record]

(* ProjectState.record_interaction, up to its save_state: the new in-memory
   state *)
record_interaction(st, search_query, books_found) ==
    LET search_record == [query |-> search_query, books_found |-> books_found] IN
    [st EXCEPT !.interaction_count = @ + 1,
               !.total_books_found = @ + books_found,
               !.searches = Append(@, search_record),
               !.last_search = search_record]

get_cached_response_miss(st, prompt, volume) == None

(* ProjectState.get_cached_response *)
get_cached_response(st, prompt, volume) ==
    DictGet(st.cached_responses, cache_key(prompt, volume))

----------------------------------------------------------------------------
(* DeepSeekAPI.get_book_info *)

PromptHead ==
    <<"P","e","r","f","o","r","m"," ","g","r","o","u","n","d","e","d"," ","d","e","e","p"," ",
      "r","e","s","e","a","r","c","h"," ","f","o","r"," ","t","h","e"," ","m","a","n","g","a"," ",
      "s","e","r","i","e","s"," ","\"">>

PromptMid == <<"\""," ","v","o","l","u","m","e"," ">>

(* the text that follows the volume number, up to where a key prefix can reach;
   the rest of the template is fixed text and the volume number again *)
PromptTail ==
    <<".","\n"," "," "," "," "," "," "," "," ","P","r","o","v","i","d","e"," ",
      "c","o","m","p","r","e","h","e","n","s","i","v","e"," ","i","n","f","o","r","m","a","t","i","o","n",
      " ","i","n"," ","J">>

(* DeepSeekAPI._create_comprehensive_prompt *)
create_comprehensive_prompt(series_name, volume) ==
    PromptHead \o series_name \o PromptMid \o IntToStr(volume) \o PromptTail

(* series names: a short one, and two long ones that differ only after the
   47th character *)
Naruto == <<"N","a","r","u","t","o">>

LongSeriesA == Rep("x", 47) \o <<"A">>

LongSeriesB == Rep("x", 47) \o <<"B">>

SeriesNames == {Naruto, LongSeriesA, LongSeriesB}

Volumes == 1..MaxVolume

(* the (series, volume) pairs the worker looks up *)
Pairs == {Naruto, LongSeriesA} \X Volumes

PayloadA == "{\"book_title\": \"A\"}"

PayloadB == "{\"book_title\": \"B\"}"

Prose == "Sorry, I could not find this volume."

(* what the external call can produce: an exception of requests.post /
   raise_for_status, or the content of the first choice *)
Outcomes ==
    {[kind |-> "raise", text |-> "Read timed out"]}
    \cup {[kind |-> "content", text |-> c] : c \in {PayloadA, PayloadB, Prose}}

(* json.loads raising *)
JSONDecodeError == [exc |-> "JSONDecodeError"]

(* None where a parsed object is expected (Optional[Dict]) *)
NoneDict == [none |-> TRUE]

(* a response whose JSON object is inside a fenced code block; [fence]
   stands for the three grave accents of the fence *)
Fenced == "[fence]json\n{\"book_title\": \"A\"}\n[fence]"

(* a response whose JSON object follows a sentence of prose *)
Wrapped == "Here is the information you asked for: {\"book_title\": \"A\"}"

(* a response that is a JSON object with a null series name *)
PayloadNullSeries == "{\"series_name\": null}"

(* json.loads on the texts of the model: the parsed object, whose values
   carry their JSON type, or JSONDecodeError; only a text that is a JSON
   document from its first to its last character parses *)
json_loads(text) ==
    CASE text = PayloadA -> [book_title |-> [t |-> "str", s |-> <<"A">>]]
      [] text = PayloadB -> [book_title |-> [t |-> "str", s |-> <<"B">>]]
      [] text = PayloadNullSeries -> [series_name |-> [t |-> "null"]]
      [] OTHER -> JSONDecodeError

(* truth value of an Optional[str] *)
Truthy(x) == x # None /\ x # ""

(* str(e) of the JSONDecodeError of json.loads on a text that does not start
   with a JSON value *)
ExpectingValue == "Expecting value: line 1 column 1 (char 0)"

get_book_info_noexcept(st, series_name, volume, outcome) ==
    LET prompt == create_comprehensive_prompt(series_name, volume)
        cached_response == get_cached_response(st, prompt, volume)
    IN IF Truthy(cached_response) /\ json_loads(cached_response) # JSONDecodeError
       THEN [ret |-> json_loads(cached_response), requested |-> FALSE, st |-> st,
             saved |-> FALSE, exc |-> ""]
       ELSE IF outcome.kind = "content" /\ json_loads(outcome.text) # JSONDecodeError
       THEN [ret |-> json_loads(outcome.text), requested |-> TRUE,
             st |-> record_api_call(st, prompt, outcome.text, volume, TRUE), saved |-> TRUE,
             exc |-> ""]
       ELSE [ret |-> NoneDict, requested |-> TRUE, st |-> st, saved |-> FALSE,
             exc |-> IF outcome.kind = "raise" THEN outcome.text ELSE ExpectingValue]

(* DeepSeekAPI.get_book_info as a function of the state and of what the
   external call produces when it is issued:
   ret is the returned value, requested tells whether requests.post ran,
   st the in-memory state afterwards, saved whether save_state ran, exc the
   exception that leaves the method ("": none, every Exception of the
   request and of the parsing is caught) *)
get_book_info(st, series_name, volume, outcome) ==
    LET prompt == create_comprehensive_prompt(series_name, volume)
        cached_response == get_cached_response(st, prompt, volume)
    IN IF Truthy(cached_response) /\ json_loads(cached_response) # JSONDecodeError
       THEN [ret |-> json_loads(cached_response), requested |-> FALSE, st |-> st,
             saved |-> FALSE, exc |-> ""]
       ELSE IF outcome.kind = "content" /\ json_loads(outcome.text) # JSONDecodeError
       THEN [ret |-> json_loads(outcome.text), requested |-> TRUE,
             st |-> record_api_call(st, prompt, outcome.text, volume, TRUE), saved |-> TRUE,
             exc |-> ""]
       ELSE [ret |-> NoneDict, requested |-> TRUE,
             st |-> record_api_call(st, prompt,
                        IF outcome.kind = "raise" THEN outcome.text ELSE ExpectingValue,
                        volume, FALSE),
             saved |-> TRUE, exc |-> ""]

----------------------------------------------------------------------------
(* JSON / Python values of the raw metadata object and of BookInfo: each
   value carries its type, so that isinstance and the exceptions of the
   string methods can be decided *)

JNull == [t |-> "null"]

JStr(s) == [t |-> "str", s |-> s]

JInt(n) == [t |-> "int", n |-> n]

(* a float, in hundredths *)
JFloat(c) == [t |-> "float", c |-> c]

(* float("nan"): a float that is neither below nor above any number *)
JNaN == [t |-> "nan"]

JList(l) == [t |-> "list", l |-> l]

(* raw_data.get(key, default) *)
RawGet(raw, key, default) == IF key \in DOMAIN raw THEN raw[key] ELSE default

RECURSIVE StrToInt(_)
(* int(s) for a non-empty string of digits *)
StrToInt(s) ==
    IF Len(s) = 1 THEN DigitVal(s[1])
    ELSE 10 * StrToInt(SubSeq(s, 1, Len(s) - 1)) + DigitVal(s[Len(s)])

AllDigits(s) == s # <<>> /\ \A i \in 1..Len(s) : IsDigit(s[i])

(* f"{x:.2f}" for a float in hundredths, x >= 0 *)
Fmt2f(c) ==
    IntToStr(c \div 100) \o <<".", Digits[((c % 100) \div 10) + 1], Digits[(c % 10) + 1]>>

(* str(x) of a float in hundredths, x >= 0: the shortest decimal, at least one
   fraction digit *)
FloatStr(c) ==
    IntToStr(c \div 100) \o <<".", Digits[((c % 100) \div 10) + 1]>>
        \o (IF c % 10 = 0 THEN <<>> ELSE <<Digits[(c % 10) + 1]>>)

(* repr(x) of a value that is not a list *)
AtomRepr(v) ==
    CASE v.t = "str" -> <<"'">> \o v.s \o <<"'">>
      [] v.t = "int" -> IntToStr(v.n)
      [] v.t = "float" -> FloatStr(v.c)
      [] OTHER -> <<"N", "o", "n", "e">>

(* str(x) *)
PyStr(v) ==
    CASE v.t = "str" -> v.s
      [] v.t = "list" ->
            <<"[">> \o Join(<<",", " ">>, [i \in 1..Len(v.l) |-> AtomRepr(v.l[i])]) \o <<"]">>
      [] OTHER -> AtomRepr(v)

(* float(x): [ok, nan, c] with the value in hundredths, nan = TRUE for
   float("nan"), or ok = FALSE for the ValueError / TypeError.  Of the texts
   float() accepts, "nan" in any case and the plain decimals with at most two
   fraction digits are covered. *)
PyFloat(v) ==
    CASE v.t = "float" -> [ok |-> TRUE, nan |-> FALSE, c |-> v.c]
      [] v.t = "int" -> [ok |-> TRUE, nan |-> FALSE, c |-> 100 * v.n]
      [] v.t = "str" ->
            LET txt == Strip(v.s)
                pieces == SplitOn(txt, <<".">>)
            IN IF Lower(txt) = <<"n", "a", "n">>
               THEN [ok |-> TRUE, nan |-> TRUE, c |-> 0]
               ELSE IF Len(pieces) = 1 /\ AllDigits(pieces[1])
               THEN [ok |-> TRUE, nan |-> FALSE, c |-> 100 * StrToInt(pieces[1])]
               ELSE IF Len(pieces) = 2 /\ AllDigits(pieces[1]) /\ AllDigits(pieces[2])
                       /\ Len(pieces[2]) <= 2
               THEN [ok |-> TRUE, nan |-> FALSE,
                     c |-> 100 * StrToInt(pieces[1])
                           + (IF Len(pieces[2]) = 1 THEN 10 * StrToInt(pieces[2])
                              ELSE StrToInt(pieces[2]))]
               ELSE [ok |-> FALSE, nan |-> FALSE, c |-> 0]
      [] OTHER -> [ok |-> FALSE, nan |-> FALSE, c |-> 0]

----------------------------------------------------------------------------
(* DataValidator *)

Articles == {<<"t", "h", "e">>, <<"a">>, <<"a", "n">>}

(* DataValidator.format_title on a str *)
format_title(title) ==
    LET words == SplitWS(title) IN
    IF words # <<>> /\ Lower(words[1]) \in Articles
    THEN Join(<<" ">>, Tail(words)) \o <<",", " ">> \o Capitalize(words[1])
    ELSE title

format_author_name_asis(author_name) == [exc |-> "", s |-> author_name]

(* DataValidator.format_author_name on a str: the formatted name, or the
   exception raised *)
format_author_name(author_name) ==
    LET name_parts == SplitWS(Strip(author_name)) IN
    IF author_name = <<>> THEN [exc |-> "", s |-> <<>>]
    ELSE IF Contains(author_name, <<",", " ">>) THEN [exc |-> "", s |-> author_name]
    ELSE IF Len(name_parts) = 2
    THEN [exc |-> "", s |-> name_parts[2] \o <<",", " ">> \o name_parts[1]]
    ELSE IF Len(name_parts) = 1 THEN [exc |-> "", s |-> name_parts[1]]
    ELSE IF \E i \in 1..Len(name_parts) : name_parts[i][Len(name_parts[i])] = "-"
    THEN [exc |-> "", s |-> author_name]
    ELSE IF name_parts = <<>> THEN [exc |-> "IndexError", s |-> <<>>]
    ELSE [exc |-> "", s |-> name_parts[Len(name_parts)] \o <<",", " ">>
                            \o Join(<<" ">>, SubSeq(name_parts, 1, Len(name_parts) - 1))]

(* format_author_name on one element of an authors list *)
format_author_element(v) ==
    CASE v.t = "str" -> format_author_name(v.s)
      [] v.t = "null" -> [exc |-> "", s |-> <<>>]
      [] v.t = "int" /\ v.n = 0 -> [exc |-> "", s |-> <<>>]
      [] OTHER -> [exc |-> "TypeError", s |-> <<>>]

(* DataValidator.format_authors_list on the authors of a BookInfo *)
format_authors_list(authors) ==
    IF authors.t = "null" \/ (authors.t = "list" /\ authors.l = <<>>)
       \/ (authors.t = "int" /\ authors.n = 0)
    THEN [exc |-> "", s |-> <<>>]
    ELSE IF authors.t # "list" THEN [exc |-> "TypeError", s |-> <<>>]
    ELSE LET formatted == [i \in 1..Len(authors.l) |-> format_author_element(authors.l[i])] IN
         IF \E i \in 1..Len(formatted) : formatted[i].exc # ""
         THEN [exc |-> formatted[CHOOSE i \in 1..Len(formatted) :
                                    /\ formatted[i].exc # ""
                                    /\ \A j \in 1..(i - 1) : formatted[j].exc = ""].exc,
               s |-> <<>>]
         ELSE [exc |-> "", s |-> Join(<<",", " ">>, [i \in 1..Len(formatted) |-> formatted[i].s])]

----------------------------------------------------------------------------
(* process_book_data *)

(* datetime.now().year *)
CurrentYear == 2025

IsWordChar(c) == IsLetter(c) \/ IsDigit(c) \/ c = "_"

(* \b\d{4}\b matches at position i of s *)
Standalone4(s, i) ==
    /\ i + 3 <= Len(s)
    /\ \A j \in i..(i + 3) : IsDigit(s[j])
    /\ (i = 1 \/ ~IsWordChar(s[i - 1]))
    /\ (i + 4 > Len(s) \/ ~IsWordChar(s[i + 4]))

(* \b(19|20)\d{2}\b matches at position i of s *)
Century4(s, i) ==
    /\ Standalone4(s, i)
    /\ <<s[i], s[i + 1]>> \in {<<"1", "9">>, <<"2", "0">>}

(* re.findall(pattern, date_str)[0] for the two year patterns, <<>> when there
   is no match: findall returns the text of the group when the pattern has
   one, the whole match otherwise *)
FirstCenturyMatch(s) ==
    IF \E i \in 1..Len(s) : Century4(s, i)
    THEN LET i == CHOOSE k \in 1..Len(s) :
                      Century4(s, k) /\ \A j \in 1..(k - 1) : ~Century4(s, j)
         IN SubSeq(s, i, i + 1)
    ELSE <<>>

FirstStandaloneMatch(s) ==
    IF \E i \in 1..Len(s) : Standalone4(s, i)
    THEN LET i == CHOOSE k \in 1..Len(s) :
                      Standalone4(s, k) /\ \A j \in 1..(k - 1) : ~Standalone4(s, j)
         IN SubSeq(s, i, i + 3)
    ELSE <<>>

YearInRange(year) == 1900 <= year /\ year <= CurrentYear + 1

(* the copyright year loop without the range test: the first match of the
   first pattern that matches is taken as the year *)
extract_copyright_year_unchecked(date_str) ==
    LET m1 == FirstCenturyMatch(date_str)
        m2 == FirstStandaloneMatch(date_str)
    IN IF m1 # <<>> THEN StrToInt(m1)
       ELSE IF m2 # <<>> THEN StrToInt(m2)
       ELSE 0

(* the copyright year loop of process_book_data: the year, or 0 for None *)
extract_copyright_year(date_str) ==
    LET m1 == FirstCenturyMatch(date_str)
        m2 == FirstStandaloneMatch(date_str)
    IN IF m1 # <<>> /\ YearInRange(StrToInt(m1)) THEN StrToInt(m1)
       ELSE IF m2 # <<>> /\ YearInRange(StrToInt(m2)) THEN StrToInt(m2)
       ELSE 0

(* a warning: the text of the f-string and its formatted arguments *)
Warning(text, args) == [text |-> text, args |-> args]

(* the authors of process_book_data *)
parse_authors(authors_raw) ==
    IF authors_raw.t = "str"
    THEN IF Contains(authors_raw.s, <<",", " ">>)
         THEN LET parts == SplitOn(authors_raw.s, <<",", " ">>) IN
              IF Len(parts) = 2 /\ Len(SplitWS(parts[1])) <= 2 /\ Len(SplitWS(parts[2])) <= 2
              THEN JList(<<JStr(Strip(authors_raw.s))>>)
              ELSE LET pieces == SplitOn(authors_raw.s, <<",">>) IN
                   JList([i \in 1..Len(pieces) |-> JStr(Strip(pieces[i]))])
         ELSE JList(<<JStr(Strip(authors_raw.s))>>)
    ELSE authors_raw

(* the MSRP of process_book_data with no test against the typical maximum *)
validate_msrp_nomax(msrp_raw) ==
    IF msrp_raw.t = "null"
    THEN [msrp_cost |-> JNull, warnings |-> <<Warning("No MSRP found", <<>>)>>]
    ELSE LET f == PyFloat(msrp_raw) IN
         IF ~f.ok
         THEN [msrp_cost |-> JNull, warnings |-> <<Warning("Invalid MSRP format", <<>>)>>]
         ELSE IF f.nan
         THEN [msrp_cost |-> JNaN, warnings |-> <<>>]
         ELSE IF f.c < 1000
         THEN [msrp_cost |-> JFloat(f.c),
               warnings |-> <<Warning("MSRP ${} is below minimum $10 (rounded up to ${})",
                                      <<Fmt2f(f.c), Fmt2f(1000)>>)>>]
         ELSE [msrp_cost |-> JFloat(f.c), warnings |-> <<>>]

(* the MSRP of process_book_data: the stored value and the warnings added *)
validate_msrp(msrp_raw) ==
    IF msrp_raw.t = "null"
    THEN [msrp_cost |-> JNull, warnings |-> <<Warning("No MSRP found", <<>>)>>]
    ELSE LET f == PyFloat(msrp_raw) IN
         IF ~f.ok
         THEN [msrp_cost |-> JNull, warnings |-> <<Warning("Invalid MSRP format", <<>>)>>]
         ELSE IF f.nan
         THEN [msrp_cost |-> JNaN, warnings |-> <<>>]
         ELSE IF f.c < 1000
         THEN [msrp_cost |-> JFloat(f.c),
               warnings |-> <<Warning("MSRP ${} is below minimum $10 (rounded up to ${})",
                                      <<Fmt2f(f.c), Fmt2f(1000)>>)>>]
         ELSE IF f.c > 3000
         THEN [msrp_cost |-> JFloat(f.c),
               warnings |-> <<Warning("MSRP ${} exceeds typical maximum $30", <<Fmt2f(f.c)>>)>>]
         ELSE [msrp_cost |-> JFloat(f.c), warnings |-> <<>>]

(* the genres of process_book_data *)
parse_genres(genres_raw) ==
    IF genres_raw.t = "str"
    THEN LET pieces == SplitOn(genres_raw.s, <<",">>) IN
         JList([i \in 1..Len(pieces) |-> JStr(Strip(pieces[i]))])
    ELSE genres_raw

(* a function that raised *)
Raised(exc) == [called |-> TRUE, exc |-> exc, info |-> JNull]

(* process_book_data(raw_data, volume_number): the BookInfo returned, or the
   exception raised *)
process_book_data(raw, volume) ==
    LET series_raw == RawGet(raw, "series_name", JStr(<<>>)) IN
    IF series_raw.t # "str" THEN Raised("AttributeError")
    ELSE
    LET series_name == format_title(series_raw.s)
        title_raw == RawGet(raw, "book_title",
                            JStr(series_name \o <<" ", "(", "V", "o", "l", "u", "m", "e", " ">>
                                 \o IntToStr(volume) \o <<")">>))
    IN
    IF title_raw.t # "str" THEN Raised("AttributeError")
    ELSE
    LET book_title == format_title(title_raw.s)
        authors == parse_authors(RawGet(raw, "authors", JList(<<>>)))
        msrp == validate_msrp(RawGet(raw, "msrp_cost", JNull))
        date_str == PyStr(RawGet(raw, "copyright_year", JStr(<<>>)))
        copyright_year == IF date_str # <<>> THEN extract_copyright_year(date_str) ELSE 0
        year_warnings == IF copyright_year = 0
                         THEN <<Warning("Could not extract valid copyright year", <<>>)>>
                         ELSE <<>>
        genres == parse_genres(RawGet(raw, "genres", JList(<<>>)))
    IN [called |-> TRUE,
        exc |-> "",
        info |-> [series_name |-> series_name,
                  volume_number |-> volume,
                  book_title |-> book_title,
                  authors |-> authors,
                  msrp_cost |-> msrp.msrp_cost,
                  isbn_13 |-> RawGet(raw, "isbn_13", JNull),
                  publisher_name |-> RawGet(raw, "publisher_name", JNull),
                  copyright_year |-> IF copyright_year = 0 THEN JNull ELSE JInt(copyright_year),
                  description |-> RawGet(raw, "description", JNull),
                  physical_description |-> RawGet(raw, "physical_description", JNull),
                  genres |-> genres,
                  warnings |-> msrp.warnings \o year_warnings,
                  barcode |-> JNull]]

----------------------------------------------------------------------------
(* Initial states *)

CacheInit ==
    /\ state = default_state
    /\ file = [exists |-> FALSE]
    /\ reqCount = [p \in Pairs |-> 0]
    /\ okSeen = [p \in Pairs |-> NoneDict]
    /\ lateReq = [p \in Pairs |-> FALSE]
    /\ last = [op |-> "init"]
    /\ newest = <<>>

(* the result of a function that has not been called *)
NotCalled == [called |-> FALSE]

NormIdle == raw_data = <<>> /\ volume_number = 0 /\ book = NotCalled

RangeIdle == volume_input = <<>> /\ volumes = NotCalled

BarcodeIdle == start_barcode = <<>> /\ count = 0 /\ barcodes = NotCalled

(* the CLI main is not running *)
MainIdle ==
    /\ pc = "idle"
    /\ api_key = ""
    /\ remaining = <<>>
    /\ looked = <<>>
    /\ all_books = <<>>
    /\ error = [at |-> "", type |-> ""]
    /\ exit_status = None

(* the worker pool has no task *)
PoolIdle ==
    /\ now = 0
    /\ gate = <<>>
    /\ sent = <<>>
    /\ writer = <<>>
    /\ observed = <<>>

Idle == MainIdle /\ PoolIdle

Init == CacheInit /\ NormIdle /\ RangeIdle /\ BarcodeIdle /\ Idle

----------------------------------------------------------------------------
(* The lookup orchestrator: one worker calling get_book_info on one
   ProjectState, and process restarts *)

(* a call of get_book_info(series_name, volume, project_state); outcome is
   what the external API does if it is asked *)
GetBookInfo(series_name, volume, outcome) ==
    LET r == get_book_info(state, series_name, volume, outcome)
        p == <<series_name, volume>>
    IN /\ r.requested => Len(state.api_calls) < MaxCalls
       /\ state' = r.st
       /\ file' = IF r.saved THEN save_state(r.st, file, TRUE) ELSE file
       /\ reqCount' = IF r.requested THEN [reqCount EXCEPT ![p] = @ + 1] ELSE reqCount
       /\ lateReq' = IF r.requested /\ okSeen[p] # NoneDict
                     THEN [lateReq EXCEPT ![p] = TRUE] ELSE lateReq
       /\ okSeen' = IF r.requested /\ r.ret # NoneDict /\ okSeen[p] = NoneDict
                    THEN [okSeen EXCEPT ![p] = r.ret] ELSE okSeen
       /\ last' = [op |-> "get_book_info", series_name |-> series_name, volume |-> volume,
                   ret |-> r.ret, requested |-> r.requested, outcome |-> outcome]
       /\ UNCHANGED <<newest, normVars, rangeVars, barcodeVars, mainVars, poolVars>>

(* the process ends and a new one constructs ProjectState on the same file *)
Restart ==
    /\ last.op # "restart"
    /\ state' = load_state(file, TRUE)
    /\ reqCount' = [p \in Pairs |-> 0]
    /\ okSeen' = [p \in Pairs |-> NoneDict]
    /\ lateReq' = [p \in Pairs |-> FALSE]
    /\ last' = [op |-> "restart"]
    /\ UNCHANGED <<file, newest, normVars, rangeVars, barcodeVars, mainVars, poolVars>>

(* the outcome of the external call is chosen only when the call is issued *)
Lookup ==
    \E p \in Pairs :
        \E o \in IF get_book_info(state, p[1], p[2], CHOOSE x \in Outcomes : TRUE).requested
                  THEN Outcomes ELSE {CHOOSE x \in Outcomes : TRUE} :
            GetBookInfo(p[1], p[2], o)

Next == Lookup \/ Restart

Spec == Init /\ [][Next]_vars

----------------------------------------------------------------------------
(* Claims about the lookup orchestrator (specification Spec) *)

(* C1, as stated: within one process run the external API is requested at
   most once per (series_name, volume), failed first attempts included *)
C1_AtMostOneRequestPerPair == \A p \in Pairs : reqCount[p] <= 1

(* C1, amended: no request is issued for a pair whose request has already
   succeeded in this run; a failed attempt is appended to api_calls with
   success = false and leaves no cache entry for its key, so the next
   get_book_info for the pair asks the API again *)
C1_NoRequestAfterSuccess ==
    /\ \A p \in Pairs : ~lateReq[p]
    /\ (last.op = "get_book_info" /\ last.requested /\ last.ret = NoneDict) =>
          /\ ~state.api_calls[Len(state.api_calls)].success
          /\ get_cached_response(state,
                 create_comprehensive_prompt(last.series_name, last.volume), last.volume) = None

(* a failed request for a pair was followed by a second, successful request
   for it, and the call after that was answered from the cache *)
C1_Witness ==
    /\ last.op = "get_book_info"
    /\ ~last.requested
    /\ reqCount[<<last.series_name, last.volume>>] = 2
    /\ okSeen[<<last.series_name, last.volume>>] # NoneDict

(* C2: once get_book_info has succeeded for a pair, every later
   get_book_info for that pair on the same ProjectState returns the same
   parsed payload and issues no external request *)
C2_SamePayloadNoRequest ==
    last.op = "get_book_info" =>
        LET p == <<last.series_name, last.volume>> IN
        okSeen[p] # NoneDict => (last.ret = okSeen[p] /\ ~lateReq[p])

(* a call for a pair that had succeeded before was answered from the cache *)
C2_Witness ==
    /\ last.op = "get_book_info"
    /\ ~last.requested
    /\ last.ret = json_loads(PayloadB)
    /\ okSeen[<<last.series_name, last.volume>>] = json_loads(PayloadB)
    /\ reqCount[<<last.series_name, last.volume>>] = 1

----------------------------------------------------------------------------
(* The cache used directly: record_api_call and get_cached_response on one
   ProjectState whose state file can be written and read, and restarts *)

CachePairs == SeriesNames \X Volumes

(* the responses passed to record_api_call *)
Responses == {PayloadA, PayloadB}

RecordApiCall(prompt, response, volume, success) ==
    /\ Len(state.api_calls) < MaxCalls
    /\ state' = record_api_call(state, prompt, response, volume, success)
    /\ file' = save_state(record_api_call(state, prompt, response, volume, success), file, TRUE)
    /\ newest' = IF success THEN DictSet(newest, cache_key(prompt, volume), response) ELSE newest
    /\ last' = [op |-> "record_api_call", prompt |-> prompt, volume |-> volume,
                response |-> response, success |-> success]
    /\ UNCHANGED <<reqCount, okSeen, lateReq, normVars, rangeVars, barcodeVars,
                 mainVars, poolVars>>

GetCachedResponse(prompt, volume) ==
    /\ last' = [op |-> "get_cached_response", prompt |-> prompt, volume |-> volume,
                ret |-> get_cached_response(state, prompt, volume),
                restarted |-> (last.op = "restart"
                               \/ (last.op = "get_cached_response" /\ last.restarted))]
    /\ UNCHANGED <<state, file, newest, reqCount, okSeen, lateReq,
                   normVars, rangeVars, barcodeVars, mainVars, poolVars>>

Put ==
    \E p \in CachePairs :
        \/ \E r \in Responses :
              RecordApiCall(create_comprehensive_prompt(p[1], p[2]), r, p[2], TRUE)
        \/ RecordApiCall(create_comprehensive_prompt(p[1], p[2]), "Read timed out", p[2], FALSE)

Get == \E p \in CachePairs : GetCachedResponse(create_comprehensive_prompt(p[1], p[2]), p[2])

NextCache == Put \/ Get \/ Restart

SpecCache == Init /\ [][NextCache]_vars

(* C3: after a successful record_api_call the payload is what
   get_cached_response returns for that prompt and volume: at once, on every
   get until the next successful put to the key, and from a ProjectState
   loaded from the state file; a later successful put to the key replaces it *)
C3_RoundTrip ==
    /\ (last.op = "record_api_call" /\ last.success) =>
          get_cached_response(state, last.prompt, last.volume) = last.response
    /\ last.op = "get_cached_response" =>
          last.ret = DictGet(newest, cache_key(last.prompt, last.volume))
    /\ \A p \in CachePairs :
          LET prompt == create_comprehensive_prompt(p[1], p[2]) IN
          get_cached_response(load_state(file, TRUE), prompt, p[2])
              = DictGet(newest, cache_key(prompt, p[2]))

(* after a restart, a get returned the second of two payloads put to one key *)
C3_Witness ==
    /\ last.op = "get_cached_response"
    /\ last.restarted
    /\ last.ret = PayloadB
    /\ Len(state.api_calls) = 2
    /\ state.api_calls[1].success
    /\ state.api_calls[1].response = PayloadA
    /\ state.api_calls[1].prompt = last.prompt

----------------------------------------------------------------------------
(* The texts of the raw metadata objects the normaliser is run on *)

(* "One Piece" *)
OnePiece ==
    <<"O","n","e"," ","P","i","e","c","e">>

(* "The Seven" *)
TheSeven ==
    <<"T","h","e"," ","S","e","v","e","n">>

(* "One Piece (Volume 1)" *)
OnePieceVolume1 ==
    <<"O","n","e"," ","P","i","e","c","e"," ","(","V","o","l","u","m","e"," ","1",")">>

(* "Romance Dawn" *)
RomanceDawn ==
    <<"R","o","m","a","n","c","e"," ","D","a","w","n">>

(* "The Seven 1" *)
TheSeven1 ==
    <<"T","h","e"," ","S","e","v","e","n"," ","1">>

(* "Oda, Eiichiro" *)
OdaEiichiro ==
    <<"O","d","a",","," ","E","i","i","c","h","i","r","o">>

(* "Oda, Eiichiro, Kishimoto, Masashi" *)
TwoAuthors ==
    <<"O","d","a",","," ","E","i","i","c","h","i","r","o",","," ","K","i","s","h","i","m","o",
      "t","o",","," ","M","a","s","a","s","h","i">>

(* "Isayama Hajime" *)
IsayamaHajime ==
    <<"I","s","a","y","a","m","a"," ","H","a","j","i","m","e">>

(* "Hajime, Isayama" *)
HajimeIsayama ==
    <<"H","a","j","i","m","e",","," ","I","s","a","y","a","m","a">>

(* "Kishimoto, Masashi, Some Other Author" *)
ThreeParts ==
    <<"K","i","s","h","i","m","o","t","o",","," ","M","a","s","a","s","h","i",","," ","S","o",
      "m","e"," ","O","t","h","e","r"," ","A","u","t","h","o","r">>

(* "Kishimoto, Masashi" *)
KishimotoMasashi ==
    <<"K","i","s","h","i","m","o","t","o",","," ","M","a","s","a","s","h","i">>

(* "9.99" *)
Msrp999 ==
    <<"9",".","9","9">>

(* "nan" *)
NanText ==
    <<"n","a","n">>

(* "invalid" *)
Invalid ==
    <<"i","n","v","a","l","i","d">>

(* "2003" *)
Year2003 ==
    <<"2","0","0","3">>

(* "1234, 2003" *)
Year1234And2003 ==
    <<"1","2","3","4",","," ","2","0","0","3">>

(* "1899" *)
Year1899 ==
    <<"1","8","9","9">>

(* "March 15, 2003" *)
March2003 ==
    <<"M","a","r","c","h"," ","1","5",","," ","2","0","0","3">>

(* "Action, Comedy" *)
ActionComedy ==
    <<"A","c","t","i","o","n",","," ","C","o","m","e","d","y">>

(* "Action" *)
Action ==
    <<"A","c","t","i","o","n">>

(* "9781569319017" *)
Isbn ==
    <<"9","7","8","1","5","6","9","3","1","9","0","1","7">>

Absent == [t |-> "absent"]

SeriesOptions == {Absent, JNull, JInt(7), JStr(OnePiece), JStr(TheSeven), JStr(<<>>)}

TitleOptions == {Absent, JNull, JStr(OnePieceVolume1), JStr(RomanceDawn), JStr(TheSeven1)}

AuthorsOptions ==
    {Absent, JNull, JInt(7), JStr(OdaEiichiro), JStr(TwoAuthors), JStr(ThreeParts),
     JStr(IsayamaHajime), JList(<<JStr(IsayamaHajime)>>), JList(<<JStr(OdaEiichiro)>>),
     JList(<<JStr(OdaEiichiro), JStr(KishimotoMasashi)>>)}

MsrpOptions ==
    {Absent, JNull, JFloat(999), JFloat(850), JFloat(1000), JFloat(1299), JFloat(3000),
     JFloat(3500), JInt(9), JInt(12), JStr(Msrp999), JStr(Invalid), JStr(NanText),
     JList(<<>>)}

YearOptions ==
    {Absent, JNull, JInt(2003), JInt(1899), JStr(Year2003), JStr(Year1234And2003),
     JStr(Year1899), JStr(March2003), JList(<<JInt(2003)>>)}

GenresOptions == {Absent, JNull, JStr(ActionComedy), JList(<<JStr(Action)>>)}

(* the fields process_book_data passes through: all absent, all null, or all given *)
ExtraOptions == {Absent, JNull, JStr(Isbn)}

RawKeys ==
    {"series_name", "book_title", "authors", "msrp_cost", "copyright_year", "genres",
     "isbn_13", "publisher_name", "description", "physical_description"}

(* the JSON object with the given value under each key; an Absent key is left out *)
RawObject(s, t, a, m, y, g, x) ==
    LET all == [k \in RawKeys |->
                   CASE k = "series_name" -> s
                     [] k = "book_title" -> t
                     [] k = "authors" -> a
                     [] k = "msrp_cost" -> m
                     [] k = "copyright_year" -> y
                     [] k = "genres" -> g
                     [] OTHER -> x]
    IN [k \in {j \in RawKeys : all[j].t # "absent"} |-> all[k]]

(* the raw objects: every combination of series_name, book_title and authors
   with well-formed other fields, and every combination of the other fields
   with a well-formed series_name, book_title and authors *)
RawInputs ==
    {RawObject(s, t, a, JFloat(1299), JInt(2003), JList(<<JStr(Action)>>), x) :
        s \in SeriesOptions, t \in TitleOptions, a \in AuthorsOptions, x \in ExtraOptions}
    \cup
    {RawObject(JStr(OnePiece), JStr(OnePieceVolume1), JList(<<JStr(OdaEiichiro)>>), m, y, g, x) :
        m \in MsrpOptions, y \in YearOptions, g \in GenresOptions, x \in ExtraOptions}

NormInit ==
    /\ raw_data \in RawInputs
    /\ volume_number \in Volumes
    /\ book = NotCalled

InitNorm == CacheInit /\ NormInit /\ RangeIdle /\ BarcodeIdle /\ Idle

(* a call of process_book_data(raw_data, volume_number) *)
ProcessBookData ==
    /\ ~book.called
    /\ book' = process_book_data(raw_data, volume_number)
    /\ UNCHANGED <<raw_data, volume_number, cacheVars, rangeVars, barcodeVars, mainVars, poolVars>>

NextNorm == ProcessBookData

SpecNorm == InitNorm /\ [][NextNorm]_vars

----------------------------------------------------------------------------
(* Claims about process_book_data (specification SpecNorm) *)

Returned == book.called /\ book.exc = ""

(* C4: process_book_data is total: for every JSON object, whatever keys are
   present and whatever JSON value is under each, it returns a BookInfo and
   does not raise *)
C4_Total == book.called => book.exc = ""

(* C5: in every record returned, series_name.lower() is a substring of
   book_title.lower() *)
C5_TitleContainsSeries ==
    Returned => Contains(Lower(book.info.book_title), Lower(book.info.series_name))

MsrpWarningTexts ==
    {"No MSRP found", "Invalid MSRP format",
     "MSRP ${} is below minimum $10 (rounded up to ${})",
     "MSRP ${} exceeds typical maximum $30"}

MsrpWarnings(info) ==
    {i \in 1..Len(info.warnings) : info.warnings[i].text \in MsrpWarningTexts}

(* C6: a numeric raw msrp_cost below 10 is stored as exactly 10.0, with exactly
   one MSRP warning, which names the original and the floored value *)
C6_MsrpFloor ==
    LET m == RawGet(raw_data, "msrp_cost", JNull) IN
    (Returned /\ m.t \in {"int", "float"} /\ PyFloat(m).c < 1000) =>
        /\ book.info.msrp_cost = JFloat(1000)
        /\ Cardinality(MsrpWarnings(book.info)) = 1
        /\ \A i \in MsrpWarnings(book.info) :
              book.info.warnings[i].args = <<Fmt2f(PyFloat(m).c), Fmt2f(1000)>>

OneWord(s) == Len(SplitWS(s)) = 1 /\ ~Contains(s, <<",">>)

(* C7: a raw authors string with one ", " and at most two words on each side
   gives one author, the whole string; a string joining k >= 2 "Last, First"
   names with ", " gives exactly k authors; a string without a comma gives
   exactly one author *)
C7_AuthorCount ==
    LET a == RawGet(raw_data, "authors", JNull) IN
    (Returned /\ a.t = "str") =>
        LET parts == SplitOn(a.s, <<",", " ">>) IN
        /\ (Len(parts) = 2 /\ Len(SplitWS(parts[1])) <= 2 /\ Len(SplitWS(parts[2])) <= 2)
              => book.info.authors = JList(<<JStr(a.s)>>)
        /\ (Len(parts) >= 4 /\ Len(parts) % 2 = 0 /\ \A i \in 1..Len(parts) : OneWord(parts[i]))
              => (book.info.authors.t = "list"
                  /\ Len(book.info.authors.l) = Len(parts) \div 2)
        /\ ~Contains(a.s, <<",">>)
              => (book.info.authors.t = "list" /\ Len(book.info.authors.l) = 1)

(* a name of two words in natural order *)
NaturalOrder(s) == ~Contains(s, <<",">>) /\ Len(SplitWS(s)) = 2

(* C8, as stated: every author of a returned record is in "Last, First" form;
   no author is left in natural order *)
C8_AuthorsInRecordLastFirst ==
    (Returned /\ book.info.authors.t = "list") =>
        \A i \in 1..Len(book.info.authors.l) :
            book.info.authors.l[i].t = "str" => ~NaturalOrder(book.info.authors.l[i].s)

(* C8, amended: the record keeps the names as given - a raw list unchanged, a
   raw string without a comma as one stripped name - and
   DataValidator.format_authors_list renders a two-word natural-order name
   "W1 W2" of the record as "W2, W1" *)
C8_LastFirstWhenRendered ==
    LET a == RawGet(raw_data, "authors", JNull) IN
    Returned =>
        /\ a.t = "list" => book.info.authors = a
        /\ (a.t = "str" /\ ~Contains(a.s, <<",">>)) =>
              book.info.authors = JList(<<JStr(Strip(a.s))>>)
        /\ \A s \in {IsayamaHajime} :
              (a.t \in {"str", "list"} /\ book.info.authors = JList(<<JStr(s)>>)) =>
                  format_authors_list(book.info.authors)
                      = [exc |-> "", s |-> SplitWS(s)[2] \o <<",", " ">> \o SplitWS(s)[1]]

(* raw "Isayama Hajime" was processed: the record holds the name as given and
   it is rendered as "Hajime, Isayama" *)
C8_Witness ==
    /\ Returned
    /\ RawGet(raw_data, "authors", JNull) = JStr(IsayamaHajime)
    /\ book.info.authors = JList(<<JStr(IsayamaHajime)>>)
    /\ format_authors_list(book.info.authors).s = HajimeIsayama

----------------------------------------------------------------------------
(* parse_volume_range *)

MaxRangeLen == 4    \* every input string of up to MaxRangeLen characters is parsed

(* int(s) on a str: surrounding whitespace is ignored, the rest must be
   decimal digits (the signs and underscores int() also accepts are not
   characters of the model) *)
PyIntOk(s) == AllDigits(Strip(s))

PyInt(s) == StrToInt(Strip(s))

(* list(range(a, b + 1)) *)
RangeList(a, b) == IF a > b THEN <<>> ELSE [i \in 1..(b - a + 1) |-> a + i - 1]

SeqToSet(q) == {q[i] : i \in 1..Len(q)}

RECURSIVE Sorted(_)
(* sorted(S) of a set of integers *)
Sorted(S) ==
    IF S = {} THEN <<>>
    ELSE LET m == CHOOSE x \in S : \A y \in S : x <= y IN <<m>> \o Sorted(S \ {m})

(* the body of the for loop for one part: the volumes it adds, or ValueError *)
parse_part(part) ==
    IF Contains(part, <<"-">>)
    THEN LET pieces == SplitOn(part, <<"-">>) IN
         IF \E i \in 1..Len(pieces) : ~PyIntOk(pieces[i])
         THEN [exc |-> "ValueError", vols |-> <<>>]
         ELSE IF CountChar(part, "-") = 1
         THEN [exc |-> "", vols |-> RangeList(PyInt(pieces[1]), PyInt(pieces[2]))]
         ELSE [exc |-> "", vols |-> [i \in 1..Len(pieces) |-> PyInt(pieces[i])]]
    ELSE IF PyIntOk(part) THEN [exc |-> "", vols |-> <<PyInt(part)>>]
    ELSE [exc |-> "ValueError", vols |-> <<>>]

RECURSIVE parse_parts(_, _)
(* the for loop over parts, from the list volumes collected so far *)
parse_parts(parts, collected) ==
    IF parts = <<>> THEN [exc |-> "", vols |-> collected]
    ELSE LET r == parse_part(Head(parts)) IN
         IF r.exc # "" THEN [exc |-> r.exc, vols |-> <<>>]
         ELSE parse_parts(Tail(parts), collected \o r.vols)

parse_volume_range_unsorted(input) ==
    LET pieces == SplitOn(input, <<",">>)
        r == parse_parts([i \in 1..Len(pieces) |-> Strip(pieces[i])], <<>>)
    IN [called |-> TRUE, exc |-> r.exc, value |-> r.vols]

(* parse_volume_range(volume_input): the list returned, or the exception raised *)
parse_volume_range(input) ==
    LET pieces == SplitOn(input, <<",">>)
        r == parse_parts([i \in 1..Len(pieces) |-> Strip(pieces[i])], <<>>)
    IN IF r.exc # "" THEN [called |-> TRUE, exc |-> r.exc, value |-> <<>>]
       ELSE [called |-> TRUE, exc |-> "", value |-> Sorted(SeqToSet(r.vols))]

RangeAlphabet == {"1", "2", "3", "-", ",", " ", "a"}

(* "1-5,7,10", "17-18-19", "1-3,2-4", "1-a", "5-1", "3,1,2", "2-4,1-3", "1-3, 1-a" *)
SampleRanges ==
    {<<"1", "-", "5", ",", "7", ",", "1", "0">>,
     <<"1", "7", "-", "1", "8", "-", "1", "9">>,
     <<"1", "-", "3", ",", "2", "-", "4">>,
     <<"1", "-", "a">>,
     <<"5", "-", "1">>,
     <<"3", ",", "1", ",", "2">>,
     <<"2", "-", "4", ",", "1", "-", "3">>,
     <<"1", "-", "3", ",", " ", "1", "-", "a">>}

RangeInputs ==
    UNION {[1..n -> RangeAlphabet] : n \in 0..MaxRangeLen} \cup SampleRanges

RangeInit == volume_input \in RangeInputs /\ volumes = NotCalled

InitRange == CacheInit /\ NormIdle /\ RangeInit /\ BarcodeIdle /\ Idle

(* a call of parse_volume_range(volume_input) *)
ParseVolumeRange ==
    /\ ~volumes.called
    /\ volumes' = parse_volume_range(volume_input)
    /\ UNCHANGED <<volume_input, cacheVars, normVars, barcodeVars, mainVars, poolVars>>

NextRange == ParseVolumeRange

SpecRange == InitRange /\ [][NextRange]_vars

(* the comma-separated segments of the input, trimmed *)
Segments(input) ==
    LET pieces == SplitOn(input, <<",">>) IN [i \in 1..Len(pieces) |-> Strip(pieces[i])]

(* text of an integer: decimal digits, blanks around them allowed *)
IntegerText(s) == AllDigits(Strip(s))

(* a bare integer, a pair a-b of integers, or a multi-hyphen list of integers *)
ValidSegment(seg) ==
    IF CountChar(seg, "-") = 0 THEN AllDigits(seg)
    ELSE \A i \in 1..Len(SplitOn(seg, <<"-">>)) : IntegerText(SplitOn(seg, <<"-">>)[i])

(* the volumes a valid segment stands for *)
SegmentVolumes(seg) ==
    LET xs == SplitOn(seg, <<"-">>) IN
    IF CountChar(seg, "-") = 1
    THEN {v \in StrToInt(Strip(xs[1]))..StrToInt(Strip(xs[2])) : TRUE}
    ELSE {StrToInt(Strip(xs[i])) : i \in 1..Len(xs)}

(* C9: when every segment is valid the result is the strictly ascending list
   of the union of the segments' volumes; otherwise ValueError is raised and
   no list is returned *)
C9_ParseVolumeRange ==
    volumes.called =>
        LET segs == Segments(volume_input) IN
        IF \A i \in 1..Len(segs) : ValidSegment(segs[i])
        THEN /\ volumes.exc = ""
             /\ \A i \in 1..(Len(volumes.value) - 1) : volumes.value[i] < volumes.value[i + 1]
             /\ SeqToSet(volumes.value) = UNION {SegmentVolumes(segs[i]) : i \in 1..Len(segs)}
        ELSE volumes.exc = "ValueError" /\ volumes.value = <<>>

(* "1-3,2-4" was parsed to [1, 2, 3, 4] *)
C9_Witness ==
    /\ volumes.called
    /\ volume_input = <<"1", "-", "3", ",", "2", "-", "4">>
    /\ volumes.value = <<1, 2, 3, 4>>

----------------------------------------------------------------------------
(* generate_sequential_barcodes *)

MaxCount == 3       \* count is 0..MaxCount
MaxDigits == 2      \* numeric fields of 1..MaxDigits digits are enumerated

RECURSIVE LetterPrefixLen(_)
(* the length of the longest prefix of letters: the first group of the
   pattern, zero or more letters *)
LetterPrefixLen(s) ==
    IF s # <<>> /\ IsLetter(Head(s)) THEN 1 + LetterPrefixLen(Tail(s)) ELSE 0

RECURSIVE DigitPrefixLen(_)
(* the length of the longest prefix of digits: the second group of the
   pattern, one or more digits, when it follows the first *)
DigitPrefixLen(s) ==
    IF s # <<>> /\ IsDigit(Head(s)) THEN 1 + DigitPrefixLen(Tail(s)) ELSE 0

(* f"{n:0{width}d}" for n >= 0 *)
ZeroPad(n, width) ==
    LET ds == IntToStr(n) IN
    IF Len(ds) >= width THEN ds ELSE Rep("0", width - Len(ds)) \o ds

generate_sequential_barcodes_nopad(start, n) ==
    LET p == LetterPrefixLen(start)
        d == DigitPrefixLen(Drop(start, p))
    IN IF d = 0 THEN [called |-> TRUE, exc |-> "ValueError", value |-> <<>>]
       ELSE [called |-> TRUE, exc |-> "",
             value |-> [i \in 1..n |->
                           Take(start, p) \o IntToStr(StrToInt(SubSeq(start, p + 1, p + d)) + i - 1)]]

(* generate_sequential_barcodes(start_barcode, count): the list returned, or
   the exception raised *)
generate_sequential_barcodes(start, n) ==
    LET p == LetterPrefixLen(start)
        d == DigitPrefixLen(Drop(start, p))
    IN IF d = 0 THEN [called |-> TRUE, exc |-> "ValueError", value |-> <<>>]
       ELSE LET prefix == Take(start, p)
                start_num == StrToInt(SubSeq(start, p + 1, p + d))
                num_digits == d
            IN [called |-> TRUE, exc |-> "",
                value |-> [i \in 1..n |-> prefix \o ZeroPad(start_num + (i - 1), num_digits)]]

BarcodePrefixes == {<<>>, <<"T">>, <<"A", "b">>}

BarcodeDigits == {"0", "1", "9"}

(* "T000001", "MANGA001", "T999999", "T000999", and barcodes that are not
   letters followed by digits: "invalid", "", "T001X", "T001-2" *)
SampleBarcodes ==
    {<<"T", "0", "0", "0", "0", "0", "1">>,
     <<"M", "A", "N", "G", "A", "0", "0", "1">>,
     <<"T", "9", "9", "9", "9", "9", "9">>,
     <<"T", "0", "0", "0", "9", "9", "9">>,
     <<"i", "n", "v", "a", "l", "i", "d">>,
     <<>>,
     <<"T", "0", "0", "1", "X">>,
     <<"T", "0", "0", "1", "-", "2">>}

BarcodeInputs ==
    {p \o d : p \in BarcodePrefixes,
              d \in UNION {[1..n -> BarcodeDigits] : n \in 1..MaxDigits}}
    \cup SampleBarcodes

BarcodeInit ==
    /\ start_barcode \in BarcodeInputs
    /\ count \in 0..MaxCount
    /\ barcodes = NotCalled

InitBarcode == CacheInit /\ NormIdle /\ RangeIdle /\ BarcodeInit /\ Idle

(* a call of generate_sequential_barcodes(start_barcode, count) *)
GenerateSequentialBarcodes ==
    /\ ~barcodes.called
    /\ barcodes' = generate_sequential_barcodes(start_barcode, count)
    /\ UNCHANGED <<start_barcode, count, cacheVars, normVars, rangeVars, mainVars, poolVars>>

NextBarcode == GenerateSequentialBarcodes

SpecBarcode == InitBarcode /\ [][NextBarcode]_vars

(* the whole string is letters followed by at least one digit *)
ValidBarcode(s) ==
    \E k \in 0..(Len(s) - 1) :
        /\ \A i \in 1..k : IsLetter(s[i])
        /\ \A i \in (k + 1)..Len(s) : IsDigit(s[i])

(* the number of letters a valid barcode starts with *)
PrefixLen(s) == Cardinality({i \in 1..Len(s) : IsLetter(s[i])})

(* C10: for a start barcode of letters followed by digits, the result has
   exactly count barcodes; the i-th is the letters of the start barcode
   followed by digits only, whose value is the start number plus i and whose
   width is the original width, or the number's own width when that is
   larger; the barcodes are pairwise distinct *)
C10_SequentialBarcodes ==
    (barcodes.called /\ ValidBarcode(start_barcode)) =>
        LET k == PrefixLen(start_barcode)
            width == Len(start_barcode) - k
            start_num == StrToInt(Drop(start_barcode, k))
            out == barcodes.value
        IN /\ barcodes.exc = ""
           /\ Len(out) = count
           /\ \A i \in 1..Len(out) :
                 /\ Take(out[i], k) = Take(start_barcode, k)
                 /\ AllDigits(Drop(out[i], k))
                 /\ StrToInt(Drop(out[i], k)) = start_num + (i - 1)
                 /\ Len(out[i]) - k >= width
                 /\ (Len(out[i]) - k > width => Drop(out[i], k)[1] # "0")
           /\ \A i, j \in 1..Len(out) : i # j => out[i] # out[j]

(* from "T999999" the second barcode is "T1000000" *)
C10_Witness ==
    /\ barcodes.called
    /\ start_barcode = <<"T", "9", "9", "9", "9", "9", "9">>
    /\ count >= 2
    /\ barcodes.value[1] = <<"T", "9", "9", "9", "9", "9", "9">>
    /\ barcodes.value[2] = <<"T", "1", "0", "0", "0", "0", "0", "0">>

(* C11: for every start barcode that is not, in its entirety, zero or more
   letters followed by one or more digits, generate_sequential_barcodes
   raises ValueError and returns no barcodes *)
C11_RejectsMalformed ==
    (barcodes.called /\ ~ValidBarcode(start_barcode)) =>
        (barcodes.exc = "ValueError" /\ barcodes.value = <<>>)

----------------------------------------------------------------------------
(* The command-line main(): ProjectState and DeepSeekAPI are constructed,
   the volumes of one confirmed series are looked up one after the other in
   the batch loop, barcodes are assigned and the interaction is recorded.
   The prompts of the terminal and the series-name confirmation are not part
   of the model; the series is Naruto. *)

(* the volume lists main can be given: parse_volume_range returns sorted
   lists without duplicates *)
Batches == {[i \in 1..n |-> i] : n \in 0..MaxVolume} \cup {<<MaxVolume>>}

ConnectionFailed == "HTTPSConnectionPool(host='api.deepseek.com', port=443): Max retries exceeded"

ReadTimedOut == "Read timed out"

Unauthorized == "401 Client Error: Unauthorized for url"

(* what the external call can produce in a run of main *)
MainOutcomes ==
    {[kind |-> "raise", text |-> x] : x \in {ConnectionFailed, ReadTimedOut, Unauthorized}}
    \cup {[kind |-> "content", text |-> c] : c \in {PayloadA, PayloadNullSeries, Prose, Fenced, Wrapped}}

(* the starting barcodes entered: the default "T000001", and "invalid" *)
MainBarcodes ==
    {<<"T", "0", "0", "0", "0", "0", "1">>, <<"i", "n", "v", "a", "l", "i", "d">>}

NoError == [at |-> "", type |-> ""]

MainInit ==
    /\ pc = "start"
    /\ api_key \in {"", "sk-key"}
    /\ remaining \in Batches
    /\ looked = <<>>
    /\ all_books = <<>>
    /\ error = NoError
    /\ exit_status = None
    /\ start_barcode \in MainBarcodes
    /\ count = 0
    /\ barcodes = NotCalled

InitMain == CacheInit /\ NormIdle /\ RangeIdle /\ MainInit /\ PoolIdle

(* DeepSeekAPI.__init__ as called by main: ValueError when DEEPSEEK_API_KEY
   is not set; main's handler for Exception reports it and main returns.
   With the key set, main goes on to the batch loop, or returns when no
   series was entered *)
Construct ==
    /\ pc = "start"
    /\ IF api_key = ""
       THEN /\ error' = [at |-> "DeepSeekAPI", type |-> "ValueError"]
            /\ pc' = "exited"
            /\ exit_status' = 0
       ELSE /\ error' = error
            /\ pc' = IF remaining = <<>> THEN "exited" ELSE "loop"
            /\ exit_status' = IF remaining = <<>> THEN 0 ELSE exit_status
    /\ UNCHANGED <<api_key, remaining, looked, all_books, cacheVars, normVars, rangeVars,
                   barcodeVars, poolVars>>

(* the truth value of the Optional[Dict] returned by get_book_info *)
TruthyDict(d) == d # NoneDict /\ DOMAIN d # {}

(* one iteration of the batch loop of main: get_book_info for the next
   volume and, when it returned data, process_book_data; an exception
   leaves the loop for main's handler.  saved_ok tells whether the
   save_state of this call can write the file *)
LookupVolume(outcome, saved_ok) ==
    LET volume == Head(remaining)
        r == get_book_info(state, Naruto, volume, outcome)
        b == IF r.exc = "" /\ TruthyDict(r.ret) THEN process_book_data(r.ret, volume)
             ELSE NotCalled
        raised == IF r.exc # "" THEN [at |-> "get_book_info", type |-> r.exc]
                  ELSE IF b.called /\ b.exc # "" THEN [at |-> "process_book_data", type |-> b.exc]
                  ELSE NoError
    IN /\ pc = "loop"
       /\ state' = r.st
       /\ file' = IF r.saved THEN save_state(r.st, file, saved_ok) ELSE file
       /\ reqCount' = IF r.requested THEN [reqCount EXCEPT ![<<Naruto, volume>>] = @ + 1]
                      ELSE reqCount
       /\ looked' = Append(looked, volume)
       /\ last' = [op |-> "get_book_info", series_name |-> Naruto, volume |-> volume,
                   ret |-> r.ret, requested |-> r.requested,
                   outcome |-> IF r.requested THEN outcome ELSE [kind |-> "none", text |-> ""]]
       /\ error' = raised
       /\ all_books' = IF b.called /\ b.exc = "" THEN Append(all_books, b.info) ELSE all_books
       /\ remaining' = IF raised = NoError THEN Tail(remaining) ELSE remaining
       /\ pc' = IF raised # NoError THEN "exited"
                ELSE IF Tail(remaining) = <<>> THEN "after_loop" ELSE "loop"
       /\ exit_status' = IF raised # NoError THEN 0 ELSE exit_status
       /\ UNCHANGED <<api_key, okSeen, lateReq, newest, normVars, rangeVars, barcodeVars,
                      poolVars>>

(* "Multiple series: Naruto (n vols)" *)
SearchQuery(n) ==
    <<"M", "u", "l", "t", "i", "p", "l", "e", " ", "s", "e", "r", "i", "e", "s", ":", " ">>
    \o Naruto \o <<" ", "(">> \o IntToStr(n) \o <<" ", "v", "o", "l", "s", ")">>

(* main after the batch loop: it returns when no book was found; otherwise
   barcodes are assigned, the interaction is recorded and main returns *)
Finish(saved_ok) ==
    LET bc == generate_sequential_barcodes(start_barcode, Len(all_books))
        recorded == record_interaction(state, SearchQuery(Len(looked)), Len(all_books))
    IN /\ pc = "after_loop"
       /\ pc' = "exited"
       /\ exit_status' = 0
       /\ IF all_books = <<>>
          THEN UNCHANGED <<state, file, barcodes, all_books, error>>
          ELSE IF bc.exc # ""
          THEN /\ error' = [at |-> "generate_sequential_barcodes", type |-> bc.exc]
               /\ barcodes' = bc
               /\ UNCHANGED <<state, file, all_books>>
          ELSE /\ barcodes' = bc
               /\ all_books' = [i \in 1..Len(all_books) |->
                                   [all_books[i] EXCEPT !.barcode = JStr(bc.value[i])]]
               /\ state' = recorded
               /\ file' = save_state(recorded, file, saved_ok)
               /\ error' = error
       /\ UNCHANGED <<api_key, remaining, looked, reqCount, okSeen, lateReq, last, newest,
                      start_barcode, count, normVars, rangeVars, poolVars>>

BatchStep ==
    \E saved_ok \in BOOLEAN :
        \E o \in IF pc = "loop"
                    /\ get_book_info(state, Naruto, Head(remaining),
                                     CHOOSE x \in MainOutcomes : TRUE).requested
                 THEN MainOutcomes ELSE {CHOOSE x \in MainOutcomes : TRUE} :
            LookupVolume(o, saved_ok)

AfterLoop == \E saved_ok \in BOOLEAN : Finish(saved_ok)

NextMain == Construct \/ BatchStep \/ AfterLoop

SpecMain == InitMain /\ [][NextMain]_vars

----------------------------------------------------------------------------
(* Claims about main and its batch loop (specification SpecMain) *)

(* the external call of the last get_book_info failed: the request raised
   (transport error, timeout, HTTP error) or its content did not parse *)
LookupFailed ==
    /\ last.op = "get_book_info"
    /\ last.requested
    /\ \/ last.outcome.kind = "raise"
       \/ last.outcome.kind = "content" /\ json_loads(last.outcome.text) = JSONDecodeError

(* C12: get_book_info never raises for a lookup failure: it returns None
   for that volume and the batch loop goes on with the remaining volumes,
   so that main does not leave the loop before the last volume because of
   it; the only exception of the lookup side is the ValueError of
   DeepSeekAPI.__init__ for a missing DEEPSEEK_API_KEY, raised before any
   external request is issued *)
C12_LookupFailureIsAMiss ==
    /\ error.at # "get_book_info"
    /\ LookupFailed =>
          /\ last.ret = NoneDict
          /\ error.at # "process_book_data"
          /\ pc \in {"loop", "after_loop", "exited"}
          /\ pc = "loop" => remaining # <<>>
          /\ pc # "loop" => remaining = <<>>
    /\ (api_key = "" /\ pc # "start") =>
          /\ pc = "exited"
          /\ error = [at |-> "DeepSeekAPI", type |-> "ValueError"]
    /\ error.at = "DeepSeekAPI" =>
          /\ api_key = ""
          /\ looked = <<>>
          /\ \A p \in Pairs : reqCount[p] = 0
          /\ state.api_calls = <<>>

(* the lookup of volume 1 failed, and main went on to look up volume 2 and
   ran to its end *)
C12_Witness ==
    /\ pc = "exited"
    /\ looked = <<1, 2>>
    /\ ~state.api_calls[1].success
    /\ state.api_calls[1].volume = 1
    /\ last.volume = 2
    /\ reqCount[<<Naruto, 2>>] = 1

----------------------------------------------------------------------------
(* The retrying lookup of add_missing_volumes_incremental.py:
   get_book_data_with_retry around DeepSeekAPI.get_book_info *)

max_retries == 3

(* time.sleep(5) between attempts *)
retry_delay == 5

SSLFailed == "HTTPSConnectionPool(host='api.deepseek.com', port=443): SSLError(SSLEOFError)"

(* "SSL" in str(e) or "Max retries exceeded" in str(e), on the exception
   texts of the model *)
IsNetworkError(text) == text \in {SSLFailed, ConnectionFailed}

RECURSIVE retry_loop(_, _, _, _, _, _)
(* the for loop of get_book_data_with_retry from a given attempt on;
   outcomes[k] is what the external call of the k-th attempt produces if it
   is issued, requests counts the external calls issued so far *)
retry_loop(st, series, volume, outcomes, attempt, requests) ==
    IF attempt >= max_retries
    THEN [ret |-> NoneDict, st |-> st, saved |-> requests > 0, requests |-> requests,
          slept |-> retry_delay * attempt]
    ELSE LET r == get_book_info(st, series, volume, outcomes[attempt + 1])
             n == requests + (IF r.requested THEN 1 ELSE 0)
         IN IF r.exc = ""
            THEN [ret |-> r.ret, st |-> r.st, saved |-> n > 0, requests |-> n,
                  slept |-> retry_delay * attempt]
            ELSE IF IsNetworkError(r.exc) /\ attempt < max_retries - 1
            THEN retry_loop(r.st, series, volume, outcomes, attempt + 1, n)
            ELSE [ret |-> NoneDict, st |-> r.st, saved |-> n > 0, requests |-> n,
                  slept |-> retry_delay * attempt]

(* get_book_data_with_retry(api, series, volume, project_state) *)
get_book_data_with_retry(st, series, volume, outcomes) ==
    retry_loop(st, series, volume, outcomes, 0, 0)

(* what the external call can produce: transport errors, a timeout, a
   rejection, a payload *)
RetryOutcomes ==
    {[kind |-> "raise", text |-> x] :
        x \in {SSLFailed, ConnectionFailed, ReadTimedOut, Unauthorized}}
    \cup {[kind |-> "content", text |-> PayloadA]}

(* a call of get_book_data_with_retry; save_state runs inside each
   get_book_info that asked the API *)
GetBookDataWithRetry(series, volume, outcomes) ==
    LET r == get_book_data_with_retry(state, series, volume, outcomes)
        p == <<series, volume>>
    IN /\ Len(state.api_calls) < MaxCalls
       /\ state' = r.st
       /\ file' = IF r.saved THEN save_state(r.st, file, TRUE) ELSE file
       /\ reqCount' = [reqCount EXCEPT ![p] = @ + r.requests]
       /\ last' = [op |-> "get_book_data_with_retry", series_name |-> series, volume |-> volume,
                   ret |-> r.ret, requests |-> r.requests, slept |-> r.slept,
                   first |-> outcomes[1]]
       /\ UNCHANGED <<okSeen, lateReq, newest, normVars, rangeVars, barcodeVars, mainVars,
                      poolVars>>

RetryingLookup ==
    \E p \in Pairs : \E outcomes \in [1..max_retries -> RetryOutcomes] :
        GetBookDataWithRetry(p[1], p[2], outcomes)

NextRetry == RetryingLookup \/ Restart

SpecRetry == Init /\ [][NextRetry]_vars

(* C13: a lookup whose external call fails with a transport-layer error or
   a timeout calls the API again, at least once and at most a fixed number
   of attempts in all, with a fixed delay before each new attempt; a lookup
   whose call is rejected makes exactly one attempt *)
C13_BoundedRetry ==
    (last.op = "get_book_data_with_retry" /\ last.requests > 0
        /\ last.first.kind = "raise") =>
        IF last.first.text \in {SSLFailed, ConnectionFailed, ReadTimedOut}
        THEN /\ last.requests >= 2
             /\ last.requests <= max_retries
             /\ last.slept = retry_delay * (last.requests - 1)
        ELSE last.requests = 1

----------------------------------------------------------------------------
(* The rate-limit gate: DeepSeekAPI._rate_limit as run by the callers of
   get_book_info.  A task of the worker pool (process_single_volume)
   constructs its own DeepSeekAPI and calls get_book_info once; the batch
   loop of main calls get_book_info again on the instance it has.  The
   clock counts ticks, TicksPerSecond to the second. *)

NumWorkers == 2         \* threads calling get_book_info
MaxGateCalls == 2       \* calls of get_book_info per thread
MaxTime == 8            \* the clock stops advancing here
TicksPerSecond == 2

(* self.min_request_interval = 1: one second between requests *)
min_request_interval == 1

Workers == 1..NumWorkers

(* the clock reading when the threads start: time.time() is far from 0 *)
StartTime == 2 * TicksPerSecond

GateInit ==
    /\ now = StartTime
    /\ gate = [w \in Workers |-> [pc |-> "idle", calls |-> 0, last_request_time |-> 0, wake |-> 0]]
    /\ sent = <<>>
    /\ writer = <<>>
    /\ observed = <<>>

InitGate == CacheInit /\ NormIdle /\ RangeIdle /\ BarcodeIdle /\ MainIdle /\ GateInit

GateUnchanged == UNCHANGED <<cacheVars, normVars, rangeVars, barcodeVars, mainVars, writerVars>>

(* process_single_volume: deepseek_api = DeepSeekAPI(), whose
   last_request_time is 0, then get_book_info is entered *)
StartTask(w) ==
    /\ gate[w].pc \in {"idle", "done"}
    /\ gate[w].calls < MaxGateCalls
    /\ gate' = [gate EXCEPT ![w] = [pc |-> "rate_limit", calls |-> @.calls + 1,
                                    last_request_time |-> 0, wake |-> 0]]
    /\ UNCHANGED <<now, sent>>
    /\ GateUnchanged

(* the batch loop of main: get_book_info is entered again on the same
   DeepSeekAPI *)
NextVolume(w) ==
    /\ gate[w].pc = "done"
    /\ gate[w].calls < MaxGateCalls
    /\ gate' = [gate EXCEPT ![w].pc = "rate_limit", ![w].calls = @ + 1]
    /\ UNCHANGED <<now, sent>>
    /\ GateUnchanged

(* _rate_limit: current_time = time.time(); the thread sleeps when less than
   min_request_interval has passed since its instance's last_request_time *)
RateLimit(w) ==
    LET current_time == now
        time_since_last == current_time - gate[w].last_request_time
    IN /\ gate[w].pc = "rate_limit"
       /\ gate' = IF time_since_last < min_request_interval * TicksPerSecond
                  THEN [gate EXCEPT ![w].pc = "sleeping",
                                    ![w].wake = now + (min_request_interval * TicksPerSecond
                                                       - time_since_last)]
                  ELSE [gate EXCEPT ![w].pc = "stamp"]
       /\ UNCHANGED <<now, sent>>
       /\ GateUnchanged

(* time.sleep returns *)
Wake(w) ==
    /\ gate[w].pc = "sleeping"
    /\ now >= gate[w].wake
    /\ gate' = [gate EXCEPT ![w].pc = "stamp"]
    /\ UNCHANGED <<now, sent>>
    /\ GateUnchanged

(* _rate_limit: self.last_request_time = time.time() *)
Stamp(w) ==
    /\ gate[w].pc = "stamp"
    /\ gate' = [gate EXCEPT ![w].pc = "post", ![w].last_request_time = now]
    /\ UNCHANGED <<now, sent>>
    /\ GateUnchanged

(* get_book_info: requests.post, the outbound request *)
Post(w) ==
    /\ gate[w].pc = "post"
    /\ sent' = Append(sent, now)
    /\ gate' = [gate EXCEPT ![w].pc = "done"]
    /\ UNCHANGED now
    /\ GateUnchanged

(* time passes *)
Tick ==
    /\ now < MaxTime
    /\ now' = now + 1
    /\ UNCHANGED <<gate, sent>>
    /\ GateUnchanged

NextGate ==
    \/ \E w \in Workers :
          StartTask(w) \/ NextVolume(w) \/ RateLimit(w) \/ Wake(w) \/ Stamp(w) \/ Post(w)
    \/ Tick

SpecGate == InitGate /\ [][NextGate]_vars

(* C14: between any two outbound requests at least min_request_interval
   elapses, whatever the interleaving of the threads *)
C14_RateLimitGate ==
    \A i \in 1..(Len(sent) - 1) :
        sent[i + 1] - sent[i] >= min_request_interval * TicksPerSecond

----------------------------------------------------------------------------
(* Concurrent cache writes: the tasks of the worker pool call
   record_api_call on the one ProjectState of the session.  The list append
   and the dictionary store are single steps of the interpreter; save_state
   opens the file for writing (which empties it), serialises the state into
   the buffer of its own file object, and the buffer reaches the file, from
   position 0, when the file object is closed.  Nothing orders the steps of
   different threads.  json.dump is taken as one step. *)

(* the successful call each task records: volume w, payload A or B *)
WriterCalls ==
    [w \in Workers |->
        [prompt |-> create_comprehensive_prompt(Naruto, ((w - 1) % MaxVolume) + 1),
         volume |-> ((w - 1) % MaxVolume) + 1,
         response |-> IF w % 2 = 1 THEN PayloadA ELSE PayloadB]]

WriterInit ==
    /\ now = 0
    /\ gate = <<>>
    /\ sent = <<>>
    /\ writer = [w \in Workers |-> [pc |-> "append", buffer |-> Torn(0)]]
    /\ observed = {}

InitWriters == CacheInit /\ NormIdle /\ RangeIdle /\ BarcodeIdle /\ MainIdle /\ WriterInit

WriterUnchanged ==
    UNCHANGED <<reqCount, okSeen, lateReq, last, newest, normVars, rangeVars, barcodeVars,
                mainVars, gateVars>>

(* record_api_call: self.state["api_calls"].append(api_call) *)
AppendCall(w) ==
    LET c == WriterCalls[w] IN
    /\ writer[w].pc = "append"
    /\ state' = [state EXCEPT !.api_calls =
                     Append(@, [prompt |-> c.prompt, response |-> c.response,
                                volume |-> c.volume, success |-> TRUE])]
    /\ writer' = [writer EXCEPT ![w].pc = "cache"]
    /\ UNCHANGED <<file, observed>>
    /\ WriterUnchanged

(* record_api_call: self.state["cached_responses"][cache_key] = response *)
StoreResponse(w) ==
    LET c == WriterCalls[w] IN
    /\ writer[w].pc = "cache"
    /\ state' = [state EXCEPT !.cached_responses =
                     DictSet(@, cache_key(c.prompt, c.volume), c.response)]
    /\ writer' = [writer EXCEPT ![w].pc = "open"]
    /\ UNCHANGED <<file, observed>>
    /\ WriterUnchanged

(* save_state: open(self.state_file, 'w') empties the file *)
OpenForWrite(w) ==
    /\ writer[w].pc = "open"
    /\ file' = [exists |-> TRUE, doc |-> Torn(0)]
    /\ writer' = [writer EXCEPT ![w].pc = "dump"]
    /\ UNCHANGED <<state, observed>>
    /\ WriterUnchanged

(* save_state: json.dump(self.state, f) fills the buffer of the file object *)
Dump(w) ==
    /\ writer[w].pc = "dump"
    /\ writer' = [writer EXCEPT ![w].pc = "close", ![w].buffer = json_dump(state)]
    /\ UNCHANGED <<state, file, observed>>
    /\ WriterUnchanged

(* the content of a file after a document is written over it from position
   0: the document, followed by what the file held beyond the document's
   length *)
WriteOver(doc, content) ==
    IF ContentSize(content) > DocSize(doc) THEN Torn(ContentSize(content)) ELSE doc

(* save_state: leaving the with block closes the file object, which writes
   its buffer to the file *)
Close(w) ==
    /\ writer[w].pc = "close"
    /\ file' = [exists |-> TRUE, doc |-> WriteOver(writer[w].buffer, file.doc)]
    /\ writer' = [writer EXCEPT ![w].pc = "returned"]
    /\ UNCHANGED <<state, observed>>
    /\ WriterUnchanged

(* a reader of the durable store: another ProjectState is constructed on
   the file (_load_state) *)
Reload ==
    /\ file.exists
    /\ observed' = observed \cup {IF Undecodable(file.doc) THEN "undecodable" ELSE "document"}
    /\ UNCHANGED <<state, file, writer>>
    /\ WriterUnchanged

NextWriters ==
    \/ \E w \in Workers :
          AppendCall(w) \/ StoreResponse(w) \/ OpenForWrite(w) \/ Dump(w) \/ Close(w)
    \/ Reload

SpecWriters == InitWriters /\ [][NextWriters]_vars

(* C15: whatever the interleaving of the threads' record_api_call calls, no
   reload observes an undecodable store; and once every call has returned,
   the store read back holds every recorded attempt and, per key, the
   payload of the last put *)
C15_ConcurrentWritesDoNotCorrupt ==
    /\ "undecodable" \notin observed
    /\ (\A w \in Workers : writer[w].pc = "returned") =>
          /\ ~Undecodable(file.doc)
          /\ load_state(file, TRUE).api_calls = state.api_calls
          /\ load_state(file, TRUE).cached_responses = state.cached_responses
          /\ \A w \in Workers :
                \E i \in 1..Len(state.api_calls) :
                    /\ state.api_calls[i].prompt = WriterCalls[w].prompt
                    /\ state.api_calls[i].response = WriterCalls[w].response

(* the same, for the store once every call has returned only *)
C15_StoreAfterAllReturned ==
    (\A w \in Workers : writer[w].pc = "returned") =>
        /\ ~Undecodable(file.doc)
        /\ load_state(file, TRUE).api_calls = state.api_calls

----------------------------------------------------------------------------
(* The durable store with failures: ProjectState on a state file whose reads
   and writes can fail, across process restarts *)

(* a state file whose bytes are not text in the encoding open() uses: f.read
   raises UnicodeDecodeError, which is a ValueError but neither a
   JSONDecodeError nor an IOError *)
NotText == [binary |-> TRUE]

(* _load_state raises: json.load meets bytes that are not text; the except
   clause names json.JSONDecodeError and IOError only *)
load_raises(f, ok) == f.exists /\ ok /\ "binary" \in DOMAIN f.doc

(* how the open / json.dump of save_state can end: the document is written;
   open raises IOError and the file stays as it was; a write raises IOError
   after open has emptied the file *)
SaveOutcomes == {"written", "open fails", "write fails"}

(* ProjectState.save_state with the outcome of its file operations: every
   IOError is caught and reported *)
save_state_io(st, f, io) ==
    CASE io = "written" -> save_state(st, f, TRUE)
      [] io = "open fails" -> save_state(st, f, FALSE)
      [] io = "write fails" -> [exists |-> TRUE, doc |-> Torn(0)]

(* the state files a first process can find: none, or one whose bytes are
   not text *)
StartFiles == {[exists |-> FALSE], [exists |-> TRUE, doc |-> NotText]}

StoreInit ==
    /\ state = default_state
    /\ file \in StartFiles
    /\ reqCount = [p \in Pairs |-> 0]
    /\ okSeen = [p \in Pairs |-> NoneDict]
    /\ lateReq = [p \in Pairs |-> FALSE]
    /\ last = [op |-> "start", exc |-> ""]
    /\ newest = <<>>

InitStore == StoreInit /\ NormIdle /\ RangeIdle /\ BarcodeIdle /\ Idle

StoreUnchanged ==
    UNCHANGED <<reqCount, okSeen, lateReq, newest, normVars, rangeVars, barcodeVars,
                mainVars, poolVars>>

(* a ProjectState object exists in the running process *)
Constructed == last.op # "start" /\ last.exc = ""

(* a process starts and constructs ProjectState on the state file; read_ok
   tells whether the file can be opened and read *)
NewProjectState(read_ok) ==
    /\ last.op # "ProjectState"
    /\ IF load_raises(file, read_ok)
       THEN /\ state' = default_state
            /\ last' = [op |-> "ProjectState", exc |-> "UnicodeDecodeError", read_ok |-> read_ok]
       ELSE /\ state' = load_state(file, read_ok)
            /\ last' = [op |-> "ProjectState", exc |-> "", read_ok |-> read_ok]
    /\ UNCHANGED file
    /\ StoreUnchanged

StoreRecordApiCall(prompt, response, volume, success, io) ==
    /\ Constructed
    /\ Len(state.api_calls) < MaxCalls
    /\ state' = record_api_call(state, prompt, response, volume, success)
    /\ file' = save_state_io(record_api_call(state, prompt, response, volume, success), file, io)
    /\ last' = [op |-> "record_api_call", exc |-> "", prompt |-> prompt, volume |-> volume,
                response |-> response, success |-> success, io |-> io]
    /\ StoreUnchanged

StoreGetCachedResponse(prompt, volume) ==
    /\ Constructed
    /\ last' = [op |-> "get_cached_response", exc |-> "", prompt |-> prompt, volume |-> volume,
                ret |-> get_cached_response(state, prompt, volume)]
    /\ UNCHANGED <<state, file>>
    /\ StoreUnchanged

StoreRecordInteraction(search_query, books_found, io) ==
    /\ Constructed
    /\ state.interaction_count < 1
    /\ state' = record_interaction(state, search_query, books_found)
    /\ file' = save_state_io(record_interaction(state, search_query, books_found), file, io)
    /\ last' = [op |-> "record_interaction", exc |-> "", io |-> io]
    /\ StoreUnchanged

StoreSaveState(io) ==
    /\ Constructed
    /\ file' = save_state_io(state, file, io)
    /\ last' = [op |-> "save_state", exc |-> "", io |-> io]
    /\ UNCHANGED state
    /\ StoreUnchanged

(* get_book_info on the ProjectState; io is the outcome of the save_state of
   its record_api_call *)
StoreGetBookInfo(series_name, volume, outcome, io) ==
    LET r == get_book_info(state, series_name, volume, outcome) IN
    /\ Constructed
    /\ r.requested => Len(state.api_calls) < MaxCalls
    /\ state' = r.st
    /\ file' = IF r.saved THEN save_state_io(r.st, file, io) ELSE file
    /\ last' = [op |-> "get_book_info", exc |-> r.exc, series_name |-> series_name,
                volume |-> volume, ret |-> r.ret, requested |-> r.requested,
                outcome |-> outcome, io |-> io]
    /\ StoreUnchanged

StartProcess == \E read_ok \in BOOLEAN : NewProjectState(read_ok)

(* the (series, volume) pairs the store is used for *)
StorePairs == {Naruto} \X Volumes

(* what the external call of a lookup on the store produces *)
StoreOutcomes == {[kind |-> "raise", text |-> ReadTimedOut], [kind |-> "content", text |-> PayloadB]}

StorePut ==
    \E p \in StorePairs, io \in SaveOutcomes :
        \/ StoreRecordApiCall(create_comprehensive_prompt(p[1], p[2]), PayloadA, p[2], TRUE, io)
        \/ StoreRecordApiCall(create_comprehensive_prompt(p[1], p[2]), ReadTimedOut, p[2],
                              FALSE, io)

StoreGet ==
    \E p \in StorePairs : StoreGetCachedResponse(create_comprehensive_prompt(p[1], p[2]), p[2])

StoreInteraction == \E io \in SaveOutcomes : StoreRecordInteraction(SearchQuery(1), 1, io)

StoreSave == \E io \in SaveOutcomes : StoreSaveState(io)

StoreLookup ==
    \E p \in StorePairs, o \in StoreOutcomes, io \in SaveOutcomes :
        StoreGetBookInfo(p[1], p[2], o, io)

NextStore ==
    StartProcess \/ StorePut \/ StoreGet \/ StoreInteraction \/ StoreSave \/ StoreLookup

SpecStore == InitStore /\ [][NextStore]_vars

(* q is p, or p with entries appended *)
IsPrefix(p, q) == Len(p) <= Len(q) /\ \A i \in 1..Len(p) : q[i] = p[i]

(* C16: across every operation of the store and every restart, failing
   loads and saves included, the api_calls log only grows by appending, and
   a key that has a cached payload keeps one *)
C16_MonotonicStore ==
    [][/\ IsPrefix(state.api_calls, state.api_calls')
       /\ DOMAIN state.cached_responses \subseteq DOMAIN state.cached_responses']_vars

(* the state file cannot be read or decoded by the process that has just
   started *)
StoreUnusable ==
    /\ last.op = "ProjectState"
    /\ file.exists
    /\ ~last.read_ok \/ Undecodable(file.doc) \/ "binary" \in DOMAIN file.doc

(* C17: a failure of the durable store never propagates: no operation of
   the store, and no get_book_info, ends with an exception; a state file
   that cannot be read or decoded gives an empty cache; after a save that
   failed the entry just recorded is in effect in memory; and get_book_info
   returns the payload it looked up *)
C17_StoreFailureContained ==
    /\ last.exc = ""
    /\ StoreUnusable =>
          \A p \in StorePairs :
              get_cached_response(state, create_comprehensive_prompt(p[1], p[2]), p[2]) = None
    /\ (last.op = "record_api_call" /\ last.success /\ last.io # "written") =>
          get_cached_response(state, last.prompt, last.volume) = last.response
    /\ (last.op = "get_book_info" /\ last.requested /\ last.outcome.kind = "content"
          /\ json_loads(last.outcome.text) # JSONDecodeError) =>
          last.ret = json_loads(last.outcome.text)

----------------------------------------------------------------------------
(* Claims about the cache key (specification SpecCache) *)

(* C18: get_cached_response returns, for a prompt, only a payload that was
   recorded for that very prompt: lookups whose rendered prompts differ
   anywhere never share a cache entry *)
C18_KeyIsWholePrompt ==
    (last.op = "get_cached_response" /\ last.ret # None) =>
        \E i \in 1..Len(state.api_calls) :
            /\ state.api_calls[i].prompt = last.prompt
            /\ state.api_calls[i].success
            /\ state.api_calls[i].response = last.ret

----------------------------------------------------------------------------
(* More claims about main (specification SpecMain) *)

(* the text of the JSON object inside a response that wraps one in prose or
   in a fenced code block *)
EmbeddedObject(text) == IF text \in {Fenced, Wrapped} THEN PayloadA ELSE text

(* C19: a response whose JSON object is wrapped in prose or in a fenced code
   block is accepted: get_book_info returns the object, the attempt is
   logged as a success and the response is cached; only a response without
   a parseable object is a lookup failure *)
C19_EmbeddedJsonAccepted ==
    (last.op = "get_book_info" /\ last.requested /\ last.outcome.kind = "content") =>
        LET object == json_loads(EmbeddedObject(last.outcome.text))
            prompt == create_comprehensive_prompt(last.series_name, last.volume)
        IN IF object = JSONDecodeError
           THEN last.ret = NoneDict
           ELSE /\ last.ret = object
                /\ state.api_calls[Len(state.api_calls)].success
                /\ get_cached_response(state, prompt, last.volume) # None

(* C20: the process exits with a non-zero status exactly when the
   configuration fails (DEEPSEEK_API_KEY is missing), and with status 0 in
   every other run, also when volumes were not resolved *)
C20_ExitStatus ==
    pc = "exited" => (exit_status # 0 <=> api_key = "")

(* C21: in a run of main whose starting barcode is malformed, the error is
   raised and reported before any lookup is issued, and no record that was
   fetched is discarded because of it *)
C21_BarcodeCheckedAtInput ==
    (api_key # "" /\ ~ValidBarcode(start_barcode)) =>
        /\ looked = <<>>
        /\ \A p \in Pairs : reqCount[p] = 0
        /\ ~(error.at = "generate_sequential_barcodes" /\ all_books # <<>>)

----------------------------------------------------------------------------
(* process_series (streamlit_app.py): every (series, volume) of the batch is
   submitted to a thread pool; the results are taken in the order in which
   the futures complete, and the barcodes are then dealt out by position.
   remaining holds all_volumes, writer the futures, looked the order in
   which the futures completed, count the number of results taken. *)

MaxTasks == 3

(* the (series, volume) pairs of the entered series, in submission order *)
TaskList == <<<<Naruto, 1>>, <<Naruto, 2>>, <<LongSeriesA, 1>>, <<LongSeriesA, 2>>,
              <<LongSeriesB, 1>>>>

DefaultBarcode == <<"T", "0", "0", "0", "0", "0", "1">>

(* the book process_single_volume returns for task i of all_volumes *)
process_single_volume(all_volumes, i) ==
    [series_name |-> all_volumes[i][1], volume_number |-> all_volumes[i][2],
     barcode |-> <<>>]

(* the loop over as_completed: the books of the futures that returned one, in
   the order in which the futures completed *)
RECURSIVE collect_completed(_, _, _)
collect_completed(all_volumes, futures, order) ==
    IF order = <<>> THEN <<>>
    ELSE LET i == Head(order)
             rest == collect_completed(all_volumes, futures, Tail(order))
         IN IF futures[i].ok THEN <<process_single_volume(all_volumes, i)>> \o rest
            ELSE rest

(* for book, barcode in zip(all_books, barcodes): book.barcode = barcode *)
assign_barcodes(books, codes) ==
    [i \in 1..Len(books) |-> [books[i] EXCEPT !.barcode = codes[i]]]

SeriesInit ==
    /\ start_barcode = DefaultBarcode
    /\ count = 0
    /\ barcodes = NotCalled
    /\ pc = "as_completed"
    /\ api_key = ""
    /\ \E n \in 2..MaxTasks : 
          /\ remaining = SubSeq(TaskList, 1, n)
          /\ writer \in [1..n -> [pc : {"running"}, ok : BOOLEAN]]
    /\ looked = <<>>
    /\ all_books = <<>>
    /\ error = [at |-> "", type |-> ""]
    /\ exit_status = None
    /\ now = 0
    /\ gate = <<>>
    /\ sent = <<>>
    /\ observed = <<>>

InitSeries == CacheInit /\ NormIdle /\ RangeIdle /\ SeriesInit

SeriesUnchanged ==
    UNCHANGED <<cacheVars, normVars, rangeVars, start_barcode, api_key, remaining, error,
                exit_status, gateVars, observed>>

(* a worker thread returns from process_single_volume: its future completes *)
Complete(i) ==
    /\ pc = "as_completed"
    /\ writer[i].pc = "running"
    /\ writer' = [writer EXCEPT ![i].pc = "done"]
    /\ looked' = Append(looked, i)
    /\ UNCHANGED <<count, barcodes, pc, all_books>>
    /\ SeriesUnchanged

(* the main thread takes the next completed future from as_completed *)
Collect ==
    /\ pc = "as_completed"
    /\ count < Len(looked)
    /\ LET i == looked[count + 1]
       IN all_books' = IF writer[i].ok
                       THEN Append(all_books, process_single_volume(remaining, i))
                       ELSE all_books
    /\ count' = count + 1
    /\ UNCHANGED <<barcodes, pc, writer, looked>>
    /\ SeriesUnchanged

(* all futures were taken: the barcodes are generated and dealt out *)
AssignBarcodes ==
    /\ pc = "as_completed"
    /\ count = Len(remaining)
    /\ barcodes' = generate_sequential_barcodes(start_barcode, Len(all_books))
    /\ all_books' = assign_barcodes(all_books, barcodes'.value)
    /\ pc' = "assigned"
    /\ UNCHANGED <<count, writer, looked>>
    /\ SeriesUnchanged

NextSeries ==
    \/ \E i \in 1..MaxTasks : i \in DOMAIN writer /\ Complete(i)
    \/ Collect
    \/ AssignBarcodes

SpecSeries == InitSeries /\ [][NextSeries]_vars

(* the records process_series leaves when the futures complete in the order
   given *)
process_series(all_volumes, futures, order, start) ==
    LET books == collect_completed(all_volumes, futures, order)
    IN assign_barcodes(books, generate_sequential_barcodes(start, Len(books)).value)

(* C22: for a fixed batch and fixed lookup outcomes the collected records,
   their order and the barcode on each (series, volume) are the same in every
   interleaving of worker completions: they equal those of the run in which
   the workers complete in submission order *)
C22_ResultsKeyedNotByArrival ==
    pc = "assigned" =>
        all_books = process_series(remaining, writer, RangeList(1, Len(remaining)),
                                   start_barcode)

----------------------------------------------------------------------------
(* Claims about the copyright year and the MSRP of process_book_data
   (specification SpecNorm) *)

YearWarnings(info) ==
    {i \in 1..Len(info.warnings) :
        info.warnings[i] = Warning("Could not extract valid copyright year", <<>>)}

(* the standalone runs of four digits of a date string, as numbers *)
StandaloneYears(s) ==
    {StrToInt(SubSeq(s, i, i + 3)) : i \in {k \in 1..Len(s) : Standalone4(s, k)}}

(* C23: in every record returned, copyright_year is empty or an integer in
   [1900, current year + 1] which is a whole run of four digits of the raw
   value, and the warning "Could not extract valid copyright year" is given
   exactly when copyright_year is empty *)
C23_CopyrightYearValid ==
    Returned =>
        LET y == book.info.copyright_year
            date_str == PyStr(RawGet(raw_data, "copyright_year", JStr(<<>>)))
        IN /\ y.t \in {"null", "int"}
           /\ y.t = "int" => (YearInRange(y.n) /\ y.n \in StandaloneYears(date_str))
           /\ (YearWarnings(book.info) # {}) <=> (y.t = "null")

(* a record with a year taken from "March 15, 2003" was returned, and one
   whose raw year 1899 was refused with the warning *)
C23_Witness ==
    /\ Returned
    /\ \/ /\ RawGet(raw_data, "copyright_year", JNull) = JStr(March2003)
          /\ book.info.copyright_year = JInt(2003)
          /\ YearWarnings(book.info) = {}
       \/ /\ RawGet(raw_data, "copyright_year", JNull) = JInt(1899)
          /\ book.info.copyright_year = JNull
          /\ YearWarnings(book.info) # {}

(* a raw MSRP that is numeric: a value float() converts, a JSON number or a
   text float() accepts *)
NumericMsrp(m) == PyFloat(m).ok

MsrpWarningTextsOf(info) == {info.warnings[i].text : i \in MsrpWarnings(info)}

(* C24: an absent (null or missing) msrp_cost gives an empty field and "No
   MSRP found"; a present value that is not numeric gives an empty field and
   "Invalid MSRP format"; a number in [10, 30] is stored unchanged without an
   MSRP warning; a number above 30 is stored unchanged with one warning that
   it exceeds the typical maximum; there is never more than one MSRP warning *)
C24_MsrpCases ==
    LET m == RawGet(raw_data, "msrp_cost", JNull) IN
    Returned =>
        /\ m.t = "null" =>
              /\ book.info.msrp_cost = JNull
              /\ MsrpWarningTextsOf(book.info) = {"No MSRP found"}
        /\ (m.t # "null" /\ ~NumericMsrp(m)) =>
              /\ book.info.msrp_cost = JNull
              /\ MsrpWarningTextsOf(book.info) = {"Invalid MSRP format"}
        /\ (NumericMsrp(m) /\ ~PyFloat(m).nan /\ 1000 <= PyFloat(m).c /\ PyFloat(m).c <= 3000) =>
              /\ book.info.msrp_cost = JFloat(PyFloat(m).c)
              /\ MsrpWarnings(book.info) = {}
        /\ (NumericMsrp(m) /\ ~PyFloat(m).nan /\ PyFloat(m).c > 3000) =>
              /\ book.info.msrp_cost = JFloat(PyFloat(m).c)
              /\ MsrpWarningTextsOf(book.info) = {"MSRP ${} exceeds typical maximum $30"}
        /\ Cardinality(MsrpWarnings(book.info)) <= 1

(* a record was returned for the raw MSRP 35.0: it holds 35.0 and the one
   warning that the price exceeds the typical maximum *)
C24_Witness ==
    /\ Returned
    /\ RawGet(raw_data, "msrp_cost", JNull) = JFloat(3500)
    /\ book.info.msrp_cost = JFloat(3500)
    /\ Cardinality(MsrpWarnings(book.info)) = 1

(* the first text matched by \b(19|20)\d{2}\b in s, <<>> when there is none *)
FirstCenturyYear(s) ==
    IF \E i \in 1..Len(s) : Century4(s, i)
    THEN LET i == CHOOSE k \in 1..Len(s) :
                      Century4(s, k) /\ \A j \in 1..(k - 1) : ~Century4(s, j)
         IN SubSeq(s, i, i + 3)
    ELSE <<>>

(* the year of the stated search order: the first 19xx/20xx run of four
   digits if there is one, else the first run of four digits, accepted when
   in range; 0 for none *)
YearBySearchOrder(s) ==
    LET chosen == IF FirstCenturyYear(s) # <<>> THEN FirstCenturyYear(s)
                  ELSE FirstStandaloneMatch(s)
    IN IF chosen # <<>> /\ YearInRange(StrToInt(chosen)) THEN StrToInt(chosen) ELSE 0

(* C27: the copyright year is searched first as a standalone 19xx/20xx run of
   four digits and only then as any standalone run of four digits, and the
   first match of the chosen pattern is accepted when it lies in
   [1900, current year + 1]: "1234, 2003" gives 2003 *)
C27_YearSearchOrder ==
    LET date_str == PyStr(RawGet(raw_data, "copyright_year", JStr(<<>>))) IN
    Returned =>
        book.info.copyright_year
            = (IF YearBySearchOrder(date_str) = 0 THEN JNull
               ELSE JInt(YearBySearchOrder(date_str)))

----------------------------------------------------------------------------
(* record_interaction on a fresh ProjectState whose state file can be read and
   written (specification SpecInteraction).  looked holds the calls made, in
   call order. *)

MaxInteractions == 3

MaxBooksFound == 2

InteractionQueries == {SearchQuery(1), SearchQuery(2)}

(* ProjectState("test_state.json") where no such file exists *)
InteractionInit ==
    /\ state = load_state([exists |-> FALSE], TRUE)
    /\ file = [exists |-> FALSE]
    /\ reqCount = [p \in Pairs |-> 0]
    /\ okSeen = [p \in Pairs |-> NoneDict]
    /\ lateReq = [p \in Pairs |-> FALSE]
    /\ last = [op |-> "ProjectState"]
    /\ newest = <<>>
    /\ pc = "idle"
    /\ api_key = ""
    /\ remaining = <<>>
    /\ looked = <<>>
    /\ all_books = <<>>
    /\ error = [at |-> "", type |-> ""]
    /\ exit_status = None

InitInteraction == InteractionInit /\ NormIdle /\ RangeIdle /\ BarcodeIdle /\ PoolIdle

InteractionUnchanged ==
    UNCHANGED <<reqCount, okSeen, lateReq, newest, normVars, rangeVars, barcodeVars, pc,
                api_key, remaining, all_books, error, exit_status, poolVars>>

(* state.record_interaction(search_query, books_found), its save_state included *)
RecordInteraction(search_query, books_found) ==
    /\ Len(looked) < MaxInteractions
    /\ state' = record_interaction(state, search_query, books_found)
    /\ file' = save_state(record_interaction(state, search_query, books_found), file, TRUE)
    /\ looked' = Append(looked, [query |-> search_query, books_found |-> books_found])
    /\ last' = [op |-> "record_interaction"]
    /\ InteractionUnchanged

(* new_state = ProjectState("test_state.json"): the object is replaced by one
   loaded from the file *)
LoadAgain ==
    /\ last.op # "ProjectState"
    /\ state' = load_state(file, TRUE)
    /\ last' = [op |-> "ProjectState"]
    /\ UNCHANGED <<file, looked>>
    /\ InteractionUnchanged

NextInteraction ==
    \/ \E q \in InteractionQueries, n \in 0..MaxBooksFound : RecordInteraction(q, n)
    \/ LoadAgain

SpecInteraction == InitInteraction /\ [][NextInteraction]_vars

RECURSIVE BooksFoundSum(_)
BooksFoundSum(calls) ==
    IF calls = <<>> THEN 0
    ELSE BooksFoundSum(SubSeq(calls, 1, Len(calls) - 1)) + calls[Len(calls)].books_found

(* the interaction counters of st are those of the calls made *)
CountersMatch(st, calls) ==
    /\ st.interaction_count = Len(calls)
    /\ st.total_books_found = BooksFoundSum(calls)
    /\ st.searches = calls
    /\ IF calls = <<>> THEN st.last_search = None
       ELSE st.last_search = calls[Len(calls)]

(* C25: after any sequence of record_interaction calls on a fresh
   ProjectState, interaction_count is the number of calls, total_books_found
   the sum of their books_found, searches holds one entry per call in call
   order and last_search is the last of them; api_calls and cached_responses
   are as they were; a ProjectState loaded from the same file after a call
   shows the same counters *)
C25_InteractionCounters ==
    /\ CountersMatch(state, looked)
    /\ state.api_calls = default_state.api_calls
    /\ state.cached_responses = default_state.cached_responses
    /\ looked # <<>> => CountersMatch(load_state(file, TRUE), looked)

(* two interactions with 2 and 1 books were recorded and the state was then
   loaded again from the file *)
C25_Witness ==
    /\ Len(looked) = 2
    /\ looked[1].books_found = 2
    /\ looked[2].books_found = 1
    /\ last.op = "ProjectState"
    /\ state.total_books_found = 3

----------------------------------------------------------------------------
(* The audit log of get_book_info (specification Spec) *)

(* the entry get_book_info logs for a request: success and the response text
   when the content parsed, failure and str(e) otherwise *)
LoggedOutcome(series_name, volume, outcome, returned) ==
    [prompt |-> create_comprehensive_prompt(series_name, volume),
     response |-> IF returned THEN outcome.text
                  ELSE IF outcome.kind = "raise" THEN outcome.text ELSE ExpectingValue,
     volume |-> volume,
     success |-> returned]

(* C26: a get_book_info call that issues an external request appends exactly
   one entry to api_calls: success = true with the response text exactly
   when a payload is returned, success = false with the error text exactly
   when nothing is returned; a call answered from the cache appends none *)
C26_OneEntryPerRequest ==
    [][last'.op = "get_book_info" =>
          IF last'.requested
          THEN state'.api_calls
                   = Append(state.api_calls,
                            LoggedOutcome(last'.series_name, last'.volume, last'.outcome,
                                          last'.ret # NoneDict))
          ELSE state'.api_calls = state.api_calls]_vars

(* one request failed and was logged as a failure, the next returned a
   payload and was logged as a success *)
C26_Witness ==
    /\ last.op = "get_book_info"
    /\ last.requested
    /\ last.ret = json_loads(PayloadA)
    /\ Len(state.api_calls) = 2
    /\ ~state.api_calls[1].success
    /\ state.api_calls[1].response = "Read timed out"
    /\ state.api_calls[2].success
    /\ state.api_calls[2].response = PayloadA

----------------------------------------------------------------------------
(* DataValidator.format_title and DataValidator.format_author_name called on
   their own (specification SpecFormat): raw_data is the text passed, book
   the result *)

MaxWords == 3

(* "The", "an", "A", "One", "Oda", "Jean-Luc" *)
FormatWords ==
    {<<"T", "h", "e">>, <<"a", "n">>, <<"A">>, <<"O", "n", "e">>, <<"O", "d", "a">>,
     <<"J", "e", "a", "n", "-", "L", "u", "c">>}

(* "", the texts of one to MaxWords words with a space between them, and
   "Oda, Eiichiro" *)
FormatInputs ==
    {Join(<<" ">>, ws) : ws \in UNION {[1..n -> FormatWords] : n \in 0..MaxWords}}
    \cup {<<"O", "d", "a", ",", " ", "E", "i", "i", "c", "h", "i", "r", "o">>}

FormatInit == raw_data \in FormatInputs /\ volume_number = 0 /\ book = NotCalled

InitFormat == CacheInit /\ FormatInit /\ RangeIdle /\ BarcodeIdle /\ Idle

(* DataValidator.format_title(raw_data) *)
FormatTitle ==
    /\ ~book.called
    /\ book' = [called |-> TRUE, fn |-> "format_title", exc |-> "",
                s |-> format_title(raw_data)]
    /\ UNCHANGED <<raw_data, volume_number, cacheVars, rangeVars, barcodeVars, mainVars, poolVars>>

(* DataValidator.format_author_name(raw_data) *)
FormatAuthorName ==
    /\ ~book.called
    /\ book' = [called |-> TRUE, fn |-> "format_author_name",
                exc |-> format_author_name(raw_data).exc,
                s |-> format_author_name(raw_data).s]
    /\ UNCHANGED <<raw_data, volume_number, cacheVars, rangeVars, barcodeVars, mainVars, poolVars>>

NextFormat == FormatTitle \/ FormatAuthorName

SpecFormat == InitFormat /\ [][NextFormat]_vars

(* the title with a leading article followed by at least one more word
   shifted to the end; every other title as it is *)
ArticleShifted(title) ==
    LET words == SplitWS(title) IN
    IF Len(words) >= 2 /\ Lower(words[1]) \in Articles
    THEN Join(<<" ">>, Tail(words)) \o <<",", " ">> \o Capitalize(words[1])
    ELSE title

(* C28: a title whose first word is "the", "a" or "an" in any case, followed
   by at least one more word, becomes the remaining words, ", " and the
   article with an initial capital; every other title - no leading article,
   an article alone, the empty string - is returned unchanged *)
C28_ArticleShift ==
    (book.called /\ book.fn = "format_title") => book.s = ArticleShifted(raw_data)

(* the name as the stated rules format it: unchanged when it holds ", " or a
   hyphenated component or is one word; "W2, W1" for two words; the last
   word, ", " and the remaining words for three or more *)
LastFirst(author_name) ==
    LET name_parts == SplitWS(author_name) IN
    IF Contains(author_name, <<",", " ">>) THEN author_name
    ELSE IF \E i \in 1..Len(name_parts) : Contains(name_parts[i], <<"-">>) THEN author_name
    ELSE IF Len(name_parts) <= 1 THEN author_name
    ELSE name_parts[Len(name_parts)] \o <<",", " ">>
         \o Join(<<" ">>, SubSeq(name_parts, 1, Len(name_parts) - 1))

(* C29: format_author_name leaves a name with a hyphenated component
   unchanged whatever its word count; otherwise two words "W1 W2" become
   "W2, W1", one word is unchanged, three or more words become the last
   word, ", " and the remaining words; a name that already holds ", " is
   unchanged, so formatting a formatted name changes nothing *)
C29_AuthorNameRules ==
    (book.called /\ book.fn = "format_author_name") =>
        /\ book.exc = ""
        /\ book.s = LastFirst(raw_data)
        /\ format_author_name(book.s) = [exc |-> "", s |-> book.s]

----------------------------------------------------------------------------
(* The series confirmation loop and the batch loop of main (specification
   SpecConfirm).  remaining holds series_entries, count the number of entries
   the confirmation loop has taken, volumes the confirmed_series_entries,
   volume_number the number of confirmed entries the batch loop has processed,
   looked the (series, volume) pairs passed to get_book_info; sent is the
   history of the options chosen and observed the set of entries presented. *)

MaxSeries == 3

(* the entries "Naruto" with volumes 1-2 and "Long series A" with volume 1 *)
EntryOptions ==
    {[original_name |-> Naruto, volumes |-> <<1, 2>>],
     [original_name |-> LongSeriesA, volumes |-> <<1>>]}

(* what correct_series_name returns: the name alone, or the name and another
   suggestion *)
SuggestionLists(series_name) == {<<series_name>>, <<series_name, LongSeriesB>>}

ConfirmInit ==
    /\ pc = "confirm"
    /\ api_key = "sk-key"
    /\ remaining \in UNION {[1..n -> EntryOptions] : n \in 1..MaxSeries}
    /\ count = 0
    /\ volumes = <<>>
    /\ volume_number = 0
    /\ looked = <<>>
    /\ all_books = <<>>
    /\ error = [at |-> "", type |-> ""]
    /\ exit_status = None
    /\ now = 0
    /\ gate = <<>>
    /\ sent = <<>>
    /\ writer = <<>>
    /\ observed = {}
    /\ raw_data = <<>>
    /\ book = NotCalled
    /\ volume_input = <<>>
    /\ start_barcode = <<>>
    /\ barcodes = NotCalled

InitConfirm == CacheInit /\ ConfirmInit

ConfirmUnchanged ==
    UNCHANGED <<cacheVars, raw_data, book, volume_input, start_barcode, barcodes, api_key,
                remaining, all_books, error, exit_status, now, gate, writer>>

(* one pass of the body of "for series_entry in series_entries": suggestions
   is what correct_series_name returned, choice the option entered when more
   than one suggestion is shown (a suggestion's number, Look Again =
   len(suggestions) + 1, Skip = len(suggestions) + 2) *)
ConfirmSeries(suggestions, choice) ==
    /\ pc = "confirm"
    /\ count < Len(remaining)
    /\ LET series_entry == remaining[count + 1]
           confirmed == [original_name |-> series_entry.original_name,
                         confirmed_name |-> suggestions[IF Len(suggestions) > 1
                                                        THEN choice ELSE 1],
                         volumes |-> series_entry.volumes]
       IN /\ observed' = observed \cup {count + 1}
          /\ IF Len(suggestions) > 1
             THEN /\ sent' = Append(sent, [entry |-> count + 1, choice |-> choice,
                                           of |-> Len(suggestions)])
                  /\ IF choice <= Len(suggestions)
                     THEN /\ volumes' = Append(volumes, confirmed)
                          /\ count' = count + 1
                          /\ pc' = pc
                     ELSE IF choice = Len(suggestions) + 1
                     THEN (* Look Again: continue takes the next series_entry *)
                          /\ volumes' = volumes
                          /\ count' = count + 1
                          /\ pc' = pc
                     ELSE (* Skip: break leaves the loop over series_entries *)
                          /\ volumes' = volumes
                          /\ count' = count
                          /\ pc' = "process"
             ELSE /\ sent' = Append(sent, [entry |-> count + 1, choice |-> 1, of |-> 1])
                  /\ volumes' = Append(volumes, confirmed)
                  /\ count' = count + 1
                  /\ pc' = pc
    /\ UNCHANGED <<volume_number, looked>>
    /\ ConfirmUnchanged

(* the loop over series_entries is exhausted *)
AllConfirmed ==
    /\ pc = "confirm"
    /\ count = Len(remaining)
    /\ pc' = "process"
    /\ UNCHANGED <<count, volumes, volume_number, looked, sent, observed>>
    /\ ConfirmUnchanged

(* one pass of "for series_entry in confirmed_series_entries": get_book_info
   is called for every volume of the entry *)
ProcessSeries ==
    /\ pc = "process"
    /\ volume_number < Len(volumes)
    /\ LET series_entry == volumes[volume_number + 1]
       IN looked' = looked \o [i \in 1..Len(series_entry.volumes) |->
                                  <<series_entry.confirmed_name, series_entry.volumes[i]>>]
    /\ volume_number' = volume_number + 1
    /\ UNCHANGED <<pc, count, volumes, sent, observed>>
    /\ ConfirmUnchanged

(* the batch loop is exhausted *)
AllProcessed ==
    /\ pc = "process"
    /\ volume_number = Len(volumes)
    /\ pc' = "done"
    /\ UNCHANGED <<count, volumes, volume_number, looked, sent, observed>>
    /\ ConfirmUnchanged

Confirm ==
    \E suggestions \in IF count < Len(remaining)
                       THEN SuggestionLists(remaining[count + 1].original_name) ELSE {} :
        \E choice \in 1..(Len(suggestions) + 2) : ConfirmSeries(suggestions, choice)

NextConfirm ==
    \/ Confirm
    \/ AllConfirmed
    \/ ProcessSeries
    \/ AllProcessed

SpecConfirm == InitConfirm /\ [][NextConfirm]_vars

(* the option entered at step k of the history is Look Again, Skip *)
LookAgain(k) == sent[k].choice = sent[k].of + 1

Skip(k) == sent[k].choice = sent[k].of + 2

(* the last option entered for entry i selects a series name *)
Selected(i) ==
    \E k \in 1..Len(sent) :
        /\ sent[k].entry = i
        /\ sent[k].choice <= sent[k].of
        /\ \A j \in (k + 1)..Len(sent) : sent[j].entry # i

(* C30: confirmation is per series: when main has finished, every entered
   series was presented whatever was chosen for the others, every series for
   which a name was selected had all its volumes looked up, and every Look
   Again was followed by a new selection for the same series *)
C30_ConfirmationPerSeries ==
    pc = "done" =>
        /\ \A i \in 1..Len(remaining) : i \in observed
        /\ \A i \in 1..Len(remaining) :
              Selected(i) =>
                  \E e \in 1..Len(volumes) :
                      /\ volumes[e].original_name = remaining[i].original_name
                      /\ volumes[e].volumes = remaining[i].volumes
                      /\ \A v \in 1..Len(remaining[i].volumes) :
                            \E k \in 1..Len(looked) :
                                looked[k] = <<volumes[e].confirmed_name,
                                              remaining[i].volumes[v]>>
        /\ \A k \in 1..Len(sent) :
              LookAgain(k) => \E j \in (k + 1)..Len(sent) : sent[j].entry = sent[k].entry

====
